---- MODULE Spec2Model ----
(***************************************************************************)
(* Image-to-CAD pipeline of image-cad-converter: edge operators, line      *)
(* tracer, feature classifier and CAD serializer, modelled from            *)
(* src/src/utils/cadGeneration.ts and                                      *)
(* src/src/components/ThreeJSViewer-simple.tsx.                            *)
(*                                                                         *)
(* Conventions.                                                            *)
(*  - An ImageData is [width, height, data] with data a function on        *)
(*    0 .. 4*width*height-1 (the Uint8ClampedArray, RGBA per pixel).       *)
(*  - A point is [x, y]; a feature is [type, points, confidence] with the  *)
(*    confidence held in hundredths (0.8 is 80).                           *)
(***************************************************************************)
EXTENDS Integers, Sequences, FiniteSets, TLC

VARIABLES
    \* ---- extractLinesFromEdges / traceLine ----
    imageData,      \* the binary edge image handed to extractLinesFromEdges
    minLineLength,  \* its second argument
    pc,             \* "idle", "scan" (outer loops), "trace" (inside traceLine), "done"
    scanIdx,        \* y * width + x of the outer loops
    visited,        \* the visited set (keys "x,y" held as points)
    stack,          \* traceLine's stack
    points,         \* traceLine's points
    features,       \* extractLinesFromEdges' features
    \* ---- categorizeDetectedFeatures ----
    rawFeatures,    \* its arguments
    canvasWidth,
    canvasHeight,
    conversionMode,
    categorized,    \* [done, value]: whether it has returned, and the list returned
    \* ---- applyEdgeDetection and the two operators ----
    edgeImage,      \* the RGBA input image
    threshold,
    operatorOut,    \* [op, image]: result of a direct call of an operator on edgeImage.data
    edgeOut,        \* method -> result of applyEdgeDetection(edgeImage, method, threshold)
    \* ---- generateCADOutput ----
    cadFeatures,    \* its arguments
    outputFormat,
    scale,
    referencePoints,
    cadOutput,      \* [done, text]: whether it has returned, and the text returned
    \* ---- the ImageToCAD component (its useState cells and refs) ----
    settings,       \* [edgeMethod, threshold, scale, outputFormat, conversionMode]
    isScaleMode,
    scalePoints,
    knownDistance,
    pixelsPerMM,    \* the fraction [num, den] in lowest terms, den > 0
    image,          \* "null" or the name of the loaded image
    canvasData,     \* the ImageData of canvasRef.current
    isProcessing,
    detectedFeatures,
    isImageFullscreen,
    run,            \* [active, count, settings, referencePoints]: whether a processImage call is
                    \* suspended, how many were started, and the values the latest closed over
    calibrationLog, \* history: [count, last, before], the number of calculateScale calls that
                    \* went through, the points and distance of the latest (none after a
                    \* clearScale) and the pixelsPerMM it found stored
    lastCall,       \* history: the handler that ran last, with its arguments
    \* ---- useImageUpload ----
    uploads,        \* per handleFileUpload call: [file, pc, during], the file it was given
                    \* (the converted one after the conversion), where the call stands, and
                    \* history: the calls that were in flight when it started
    isUploading,    \* the two useState cells of the hook
    isConverting

traceVars == <<imageData, minLineLength, pc, scanIdx, visited, stack, points, features>>

classVars == <<rawFeatures, canvasWidth, canvasHeight, conversionMode, categorized>>

edgeVars == <<edgeImage, threshold, operatorOut, edgeOut>>

cadVars == <<cadFeatures, outputFormat, scale, referencePoints, cadOutput>>

appVars == <<settings, isScaleMode, scalePoints, knownDistance, pixelsPerMM, image, canvasData,
             isProcessing, detectedFeatures, isImageFullscreen, run, calibrationLog, lastCall>>

uploadVars == <<uploads, isUploading, isConverting>>

vars == <<traceVars, classVars, edgeVars, cadVars, appVars, uploadVars>>

\* No image (a result not yet computed).
NoImage == [width |-> 0, height |-> 0, data |-> <<>>]

EdgeMethods == {"canny", "sobel", "laplacian"}

\* The number of handleFileUpload calls followed.
MaxUploads == 2

NoFile == [stem |-> "", ext |-> "", type |-> "", size |-> 0]

\* useState(false) twice, and no call made yet.
UploadIdle ==
    /\ uploads = [k \in 1 .. MaxUploads |-> [file |-> NoFile, pc |-> "idle", during |-> {}]]
    /\ isUploading = FALSE
    /\ isConverting = FALSE

\* The variables of the functions that are not running.
TraceIdle ==
    /\ imageData = NoImage
    /\ minLineLength = 0
    /\ pc = "idle"
    /\ scanIdx = 0
    /\ visited = {}
    /\ stack = <<>>
    /\ points = <<>>
    /\ features = <<>>

ClassIdle ==
    /\ rawFeatures = <<>>
    /\ canvasWidth = 0
    /\ canvasHeight = 0
    /\ conversionMode = "yacht"
    /\ categorized = [done |-> FALSE, value |-> <<>>]

EdgeIdle ==
    /\ edgeImage = NoImage
    /\ threshold = 0
    /\ operatorOut = [op |-> "none", image |-> NoImage]
    /\ edgeOut = [m \in EdgeMethods |-> NoImage]

CadIdle ==
    /\ cadFeatures = <<>>
    /\ outputFormat = "dxf"
    /\ scale = 0
    /\ referencePoints = <<>>
    /\ cadOutput = [done |-> FALSE, text |-> <<>>]

\* useState(...) of the component: the settings, the calibration cells.
DefaultSettings ==
    [edgeMethod |-> "canny", threshold |-> 100, scale |-> 100000,
     outputFormat |-> "dxf", conversionMode |-> "interior"]

One == [num |-> 1, den |-> 1]

NoRun == [active |-> FALSE, count |-> 0, settings |-> DefaultSettings, referencePoints |-> <<>>]

NotCalibrated == [points |-> <<>>, distance |-> 0]

NoCalibration == [count |-> 0, last |-> NotCalibrated, before |-> One]

AppIdle ==
    /\ settings = DefaultSettings
    /\ isScaleMode = FALSE
    /\ scalePoints = <<>>
    /\ knownDistance = 100000
    /\ pixelsPerMM = One
    /\ image = "null"
    /\ canvasData = NoImage
    /\ isProcessing = FALSE
    /\ detectedFeatures = <<>>
    /\ isImageFullscreen = FALSE
    /\ run = NoRun
    /\ calibrationLog = NoCalibration
    /\ lastCall = <<"none">>

(***************************************************************************)
(* Bounds of the tracer inputs.                                            *)
(***************************************************************************)
ImgW == 3
ImgH == 2
MaxMinLen == 2

Pt(x, y) == [x |-> x, y |-> y]

(***************************************************************************)
(* Images.  MkImage builds an ImageData whose pixel i has R = G = B = f[i] *)
(* and A = 255, the layout the edge operators write.                       *)
(***************************************************************************)
MkImage(w, h, f) ==
    [width |-> w, height |-> h,
     data |-> [i \in 0 .. (4 * w * h - 1) |->
                 IF i % 4 = 3 THEN 255 ELSE f[i \div 4]]]

\* The two channel values around the tracer's cut-off.
PixelLevels == {128, 129}

GridImages ==
    { MkImage(ImgW, ImgH, f) : f \in [0 .. (ImgW * ImgH - 1) -> PixelLevels] }

\* Straight lines of 15 white pixels on black: horizontal, vertical, diagonal.
LineImages ==
    { MkImage(17, 1, [i \in 0 .. 16 |-> IF i \in 1 .. 15 THEN 255 ELSE 0]),
      MkImage(1, 17, [i \in 0 .. 16 |-> IF i \in 1 .. 15 THEN 255 ELSE 0]),
      MkImage(15, 15, [i \in 0 .. 224 |-> IF i % 15 = i \div 15 THEN 255 ELSE 0]) }

\* An image given by the set of its white pixels (indices y * w + x).
Bitmap(w, h, on) == MkImage(w, h, [i \in 0 .. (w * h - 1) |-> IF i \in on THEN 255 ELSE 0])

\* Larger fixed shapes: a diagonal stroke beside a dot, a ring around a dot, a
\* checkerboard (diagonal contacts only), a U whose arms meet only at the bottom,
\* two bars with an off column between them.
ShapeImages ==
    { Bitmap(5, 3, {0, 6, 12, 4}),
      Bitmap(5, 5, ((0 .. 4) \cup {5, 9, 10, 14, 15, 19} \cup (20 .. 24)) \cup {12}),
      Bitmap(4, 4, {0, 2, 5, 7, 8, 10, 13, 15}),
      Bitmap(5, 4, {0, 4, 5, 9, 10, 14, 15, 16, 17, 18, 19}),
      Bitmap(3, 4, {0, 3, 6, 9, 2, 5, 8, 11}) }

(***************************************************************************)
(* traceLine and extractLinesFromEdges.                                    *)
(***************************************************************************)
\* data[idx] > 128
IsOn(v) == v > 128

\* data[(y * width + x) * 4]
PixelAt(img, x, y) == img.data[(y * img.width + x) * 4]

\* for dy = -1..1, for dx = -1..1, skipping (0,0): the order of the pushes
NeighbourOffsets ==
    << <<-1, -1>>, <<0, -1>>, <<1, -1>>,
       <<-1, 0>>,             <<1, 0>>,
       <<-1, 1>>,  <<0, 1>>,  <<1, 1>> >>

InBounds(img, x, y) == x >= 0 /\ x < img.width /\ y >= 0 /\ y < img.height

\* The neighbours traceLine pushes for pixel p, in push order, given the
\* visited set vis (which already holds p).
PushedNeighboursAllMutant(img, p, vis) ==
    LET cand == [k \in 1 .. 8 |->
                   Pt(p.x + NeighbourOffsets[k][1], p.y + NeighbourOffsets[k][2])]
        keep(n) == InBounds(img, n.x, n.y)
    IN  SelectSeq(cand, keep)
PushedNeighboursMutant(img, p, vis) ==
    LET cand == [k \in 1 .. 8 |->
                   Pt(p.x + NeighbourOffsets[k][1], p.y + NeighbourOffsets[k][2])]
        keep(n) == /\ InBounds(img, n.x, n.y)
                   /\ n \notin vis
                   /\ IsOn(PixelAt(img, n.x, n.y))
                   /\ (n.x = p.x \/ n.y = p.y)
    IN  SelectSeq(cand, keep)
PushedNeighbours(img, p, vis) ==
    LET cand == [k \in 1 .. 8 |->
                   Pt(p.x + NeighbourOffsets[k][1], p.y + NeighbourOffsets[k][2])]
        keep(n) == /\ InBounds(img, n.x, n.y)
                   /\ n \notin vis
                   /\ IsOn(PixelAt(img, n.x, n.y))
    IN  SelectSeq(cand, keep)

\* features.push({type: "hull_profile", points: linePoints, confidence: 0.8})
RawFeatureMutant(linePoints) ==
    [type |-> "hull_profile",
     points |-> [k \in 1 .. Len(linePoints) |-> linePoints[Len(linePoints) + 1 - k]],
     confidence |-> 80]
RawFeature(linePoints) ==
    [type |-> "hull_profile", points |-> linePoints, confidence |-> 80]

\* if (linePoints.length >= minLineLength)
KeepsTraceMutant(linePoints, minLen) == Len(linePoints) > minLen
KeepsTrace(linePoints, minLen) == Len(linePoints) >= minLen

\* if (visited.has(key)) continue;
AlreadyVisitedMutant(p, vis) == FALSE
AlreadyVisited(p, vis) == p \in vis

TraceInit ==
    /\ UploadIdle
    /\ \/ imageData \in GridImages \cup ShapeImages /\ minLineLength \in 1 .. MaxMinLen
       \/ imageData \in LineImages /\ minLineLength \in {10, 20}
    /\ ClassIdle /\ EdgeIdle /\ CadIdle /\ AppIdle
    /\ pc = "scan"
    /\ scanIdx = 0
    /\ visited = {}
    /\ stack = <<>>
    /\ points = <<>>
    /\ features = <<>>

\* One iteration of the outer loops: skip the pixel, or call traceLine on it.
ScanPixel ==
    /\ pc = "scan"
    /\ scanIdx < imageData.width * imageData.height
    /\ LET x == scanIdx % imageData.width
           y == scanIdx \div imageData.width
       IN  IF IsOn(PixelAt(imageData, x, y)) /\ Pt(x, y) \notin visited
           THEN /\ stack' = <<Pt(x, y)>>
                /\ points' = <<>>
                /\ pc' = "trace"
                /\ UNCHANGED scanIdx
           ELSE /\ scanIdx' = scanIdx + 1
                /\ UNCHANGED <<stack, points, pc>>
    /\ UNCHANGED <<imageData, minLineLength, visited, features>>
    /\ UNCHANGED <<uploadVars, classVars, edgeVars, cadVars, appVars>>

\* One iteration of traceLine's while loop.
TracePop ==
    /\ pc = "trace"
    /\ stack # <<>>
    /\ LET p == stack[Len(stack)]
           rest == SubSeq(stack, 1, Len(stack) - 1)
       IN  IF AlreadyVisited(p, visited)
           THEN /\ stack' = rest
                /\ UNCHANGED <<visited, points>>
           ELSE /\ visited' = visited \cup {p}
                /\ IF IsOn(PixelAt(imageData, p.x, p.y))
                   THEN /\ points' = Append(points, p)
                        /\ stack' = rest \o PushedNeighbours(imageData, p, visited')
                   ELSE /\ stack' = rest
                        /\ UNCHANGED points
    /\ UNCHANGED <<imageData, minLineLength, pc, scanIdx, features>>
    /\ UNCHANGED <<uploadVars, classVars, edgeVars, cadVars, appVars>>

\* traceLine returns; the trace is pushed when it is long enough.
TraceReturn ==
    /\ pc = "trace"
    /\ stack = <<>>
    /\ features' = IF KeepsTrace(points, minLineLength)
                   THEN Append(features, RawFeature(points))
                   ELSE features
    /\ points' = <<>>
    /\ scanIdx' = scanIdx + 1
    /\ pc' = "scan"
    /\ UNCHANGED <<imageData, minLineLength, visited, stack>>
    /\ UNCHANGED <<uploadVars, classVars, edgeVars, cadVars, appVars>>

\* return features
ScanDone ==
    /\ pc = "scan"
    /\ scanIdx = imageData.width * imageData.height
    /\ pc' = "done"
    /\ UNCHANGED <<imageData, minLineLength, scanIdx, visited, stack, points, features>>
    /\ UNCHANGED <<uploadVars, classVars, edgeVars, cadVars, appVars>>

TraceNext == ScanPixel \/ TracePop \/ TraceReturn \/ ScanDone

SpecTrace == TraceInit /\ [][TraceNext]_vars

(***************************************************************************)
(* 8-connectivity, stated on the image alone.                              *)
(***************************************************************************)
AllPixels(img) == { Pt(x, y) : x \in 0 .. (img.width - 1), y \in 0 .. (img.height - 1) }

OnPixels(img) == { p \in AllPixels(img) : img.data[(p.y * img.width + p.x) * 4] > 128 }

Abs(n) == IF n < 0 THEN -n ELSE n

Adjacent8(p, q) == p # q /\ Abs(p.x - q.x) <= 1 /\ Abs(p.y - q.y) <= 1

RECURSIVE Grow(_, _)
Grow(on, S) ==
    LET N == S \cup { q \in on : \E s \in S : Adjacent8(s, q) }
    IN  IF N = S THEN S ELSE Grow(on, N)

\* The on pixels joined to p by a path of on pixels, consecutive ones 8-neighbours.
ComponentOf(img, p) == Grow(OnPixels(img), {p})

Components(img) == { ComponentOf(img, p) : p \in OnPixels(img) }

PointSet(f) == { f.points[i] : i \in 1 .. Len(f.points) }

\* C1: with minLineLength <= 1 the traces returned by extractLinesFromEdges are
\* exactly the 8-connected components of the on pixels (channel 0 > 128): two on
\* pixels share a trace iff an 8-neighbour path of on pixels joins them, every
\* component is one trace, and there are as many traces as components.
C1_TracesAreComponents ==
    (pc = "done" /\ minLineLength <= 1) =>
        LET on == OnPixels(imageData)
            comps == Components(imageData)
            traces == { PointSet(features[i]) : i \in 1 .. Len(features) }
        IN  /\ \A p \in on : \A q \in on :
                  (\E t \in traces : p \in t /\ q \in t) <=> (\E c \in comps : p \in c /\ q \in c)
            /\ traces = comps
            /\ Len(features) = Cardinality(comps)

\* Two components separated by off pixels, one of them held together by a
\* diagonal step only.
C1_Witness ==
    /\ pc = "done"
    /\ minLineLength <= 1
    /\ Len(features) = 2
    /\ \E i \in 1 .. 2 : \E p \in PointSet(features[i]) : \E q \in PointSet(features[i]) :
          /\ Abs(p.x - q.x) = 1 /\ Abs(p.y - q.y) = 1
          /\ Pt(p.x, q.y) \notin OnPixels(imageData)
          /\ Pt(q.x, p.y) \notin OnPixels(imageData)

IsLineExample == imageData \in LineImages

\* C2: a trace is emitted iff it has at least minLineLength points: the features
\* are exactly the components with that many pixels, each whole, and no pixel of
\* a smaller component appears in any feature; a straight line of 15 on pixels
\* gives one feature of 15 points for minLineLength 10 and none for 20.
C2_MinLineLength ==
    pc = "done" =>
        LET comps == Components(imageData)
            long == { c \in comps : Cardinality(c) >= minLineLength }
            traces == { PointSet(features[i]) : i \in 1 .. Len(features) }
        IN  /\ \A i \in 1 .. Len(features) : Len(features[i].points) >= minLineLength
            /\ traces = long
            /\ \A c \in comps \ long : \A t \in traces : t \cap c = {}
            /\ Len(features) = Cardinality(long)
            /\ (IsLineExample /\ minLineLength = 10) =>
                  Len(features) = 1 /\ Len(features[1].points) = 15
            /\ (IsLineExample /\ minLineLength = 20) => Len(features) = 0

\* One component kept with exactly minLineLength points and another dropped.
C2_Witness ==
    /\ pc = "done"
    /\ Len(features) = 1
    /\ Len(features[1].points) = minLineLength
    /\ \E c \in Components(imageData) : Cardinality(c) < minLineLength

(***************************************************************************)
(* categorizeDetectedFeatures (ThreeJSViewer-simple.tsx).                  *)
(*                                                                         *)
(* Coordinates are integers, so every comparison of the code is decided    *)
(* exactly on squares and cross-multiplied sums: length = sqrt(ChordSq),   *)
(* avgY = SumY / n.  For the canvas sizes of Canvases the products         *)
(* canvasWidth * 0.3, canvasHeight * 0.4, ... are exact in IEEE doubles.   *)
(***************************************************************************)
MaxRaw == 2

FirstPoint(pts) == pts[1]
LastPoint(pts) == pts[Len(pts)]

\* length * length, for length = Math.sqrt(pow(last.x - first.x, 2) + pow(last.y - first.y, 2))
ChordSq(pts) ==
    (LastPoint(pts).x - FirstPoint(pts).x) * (LastPoint(pts).x - FirstPoint(pts).x)
    + (LastPoint(pts).y - FirstPoint(pts).y) * (LastPoint(pts).y - FirstPoint(pts).y)

\* The filter callback: points.length >= 3 and length >= 20.
PassesFilterMutant(feature) ==
    IF Len(feature.points) < 3 THEN FALSE ELSE ChordSq(feature.points) > 400
PassesFilter(feature) ==
    IF Len(feature.points) < 3 THEN FALSE ELSE ChordSq(feature.points) >= 400

\* length > base * (num / den)
LengthGt(pts, num, den, base) == ChordSq(pts) * den * den > (num * base) * (num * base)

DeltaX(pts) == Abs(LastPoint(pts).x - FirstPoint(pts).x)
DeltaY(pts) == Abs(LastPoint(pts).y - FirstPoint(pts).y)
IsHorizontal(pts) == DeltaX(pts) > DeltaY(pts)
IsVertical(pts) == DeltaY(pts) > DeltaX(pts)

RECURSIVE SumX(_)
SumX(pts) == IF pts = <<>> THEN 0 ELSE pts[1].x + SumX(Tail(pts))
RECURSIVE SumY(_)
SumY(pts) == IF pts = <<>> THEN 0 ELSE pts[1].y + SumY(Tail(pts))

\* avgY > canvasHeight * 0.7 and avgY < canvasHeight * 0.3
AvgYGt70(pts, ch) == SumY(pts) * 10 > 7 * ch * Len(pts)
AvgYLt30(pts, ch) == SumY(pts) * 10 < 3 * ch * Len(pts)

Min(a, b) == IF a < b THEN a ELSE b

featureTypes == <<"hull_profile", "waterline", "mast", "deck_edge", "cabin", "keel">>

Label(cur, t, c) == [cur EXCEPT !.type = t, !.confidence = c]

\* The yacht branch of the map callback; cur is (featureType, confidence) before it.
YachtLabelMutant(cur, pts, cw, ch) ==
    IF IsHorizontal(pts) /\ LengthGt(pts, 3, 10, cw)
    THEN IF AvgYLt30(pts, ch) THEN Label(cur, "waterline", 90)
         ELSE IF AvgYGt70(pts, ch) THEN Label(cur, "deck_edge", 80)
         ELSE Label(cur, "hull_profile", 85)
    ELSE IF IsVertical(pts) /\ LengthGt(pts, 2, 5, ch) THEN Label(cur, "mast", 80)
    ELSE IF LengthGt(pts, 1, 5, Min(cw, ch)) THEN Label(cur, "hull_profile", 75)
    ELSE Label(cur, "deck_edge", 60)
YachtLabel(cur, pts, cw, ch) ==
    IF IsHorizontal(pts) /\ LengthGt(pts, 3, 10, cw)
    THEN IF AvgYGt70(pts, ch) THEN Label(cur, "waterline", 90)
         ELSE IF AvgYLt30(pts, ch) THEN Label(cur, "deck_edge", 80)
         ELSE Label(cur, "hull_profile", 85)
    ELSE IF IsVertical(pts) /\ LengthGt(pts, 2, 5, ch) THEN Label(cur, "mast", 80)
    ELSE IF LengthGt(pts, 1, 5, Min(cw, ch)) THEN Label(cur, "hull_profile", 75)
    ELSE Label(cur, "deck_edge", 60)

\* The interior/general branch; cur already holds featureTypes[index % 6].
InteriorLabelMutant(cur, pts, cw, ch) ==
    IF IsHorizontal(pts) /\ LengthGt(pts, 3, 10, cw)
    THEN IF AvgYLt30(pts, ch) THEN Label(cur, "deck_edge", 80)
         ELSE IF AvgYGt70(pts, ch) THEN Label(cur, "waterline", 80)
         ELSE Label(cur, "hull_profile", 70)
    ELSE IF IsVertical(pts) /\ LengthGt(pts, 2, 5, ch) THEN Label(cur, "mast", 80)
    ELSE IF LengthGt(pts, 3, 20, Min(cw, ch)) THEN Label(cur, "cabin", 70)
    ELSE [cur EXCEPT !.confidence = 60]
InteriorLabel(cur, pts, cw, ch) ==
    IF IsHorizontal(pts) /\ LengthGt(pts, 3, 10, cw)
    THEN IF AvgYLt30(pts, ch) THEN Label(cur, "deck_edge", 80)
         ELSE IF AvgYGt70(pts, ch) THEN Label(cur, "waterline", 80)
         ELSE Label(cur, "hull_profile", 70)
    ELSE IF IsVertical(pts) /\ LengthGt(pts, 2, 5, ch) THEN Label(cur, "mast", 80)
    ELSE IF LengthGt(pts, 3, 20, Min(cw, ch)) THEN Label(cur, "cabin", 70)
    ELSE Label(cur, "keel", 60)

\* The largest r with r * r <= n.
RECURSIVE ISqrtIn(_, _, _)
ISqrtIn(n, lo, hi) ==
    IF lo = hi THEN lo
    ELSE LET mid == (lo + hi + 1) \div 2
         IN  IF mid * mid <= n THEN ISqrtIn(n, mid, hi) ELSE ISqrtIn(n, lo, mid - 1)
ISqrt(n) == ISqrtIn(n, 0, 46340)

\* length.toFixed(1): sqrt(ChordSq) rounded to tenths.
LengthFixed1(pts) ==
    LET tenths == (ISqrt(400 * ChordSq(pts)) + 1) \div 2
    IN  ToString(tenths \div 10) \o "." \o ToString(tenths % 10)

\* ((avg / canvas) * 100).toFixed(0) for avg = sum / n
PercentFixed0(sum, n, canvas) == ToString((200 * sum + n * canvas) \div (2 * n * canvas))

Orientation(pts) ==
    IF IsHorizontal(pts) THEN "horizontal" ELSE IF IsVertical(pts) THEN "vertical" ELSE "diagonal"

\* The map callback on the feature at position index (0-based) of the filtered list.
CategorizeOne(feature, index, cw, ch, mode) ==
    LET pts == feature.points
    IN  IF Len(pts) < 2 THEN feature
        ELSE LET start == [type |-> "hull_profile", confidence |-> 70]
                 out == IF mode = "yacht"
                        THEN YachtLabel(start, pts, cw, ch)
                        ELSE InteriorLabel(
                                 [start EXCEPT !.type = featureTypes[(index % Len(featureTypes)) + 1]],
                                 pts, cw, ch)
             IN  [type |-> out.type,
                  points |-> pts,
                  confidence |-> out.confidence,
                  metadata |->
                      [length |-> LengthFixed1(pts),
                       orientation |-> Orientation(pts),
                       position |-> PercentFixed0(SumX(pts), Len(pts), cw) \o "%,"
                                    \o PercentFixed0(SumY(pts), Len(pts), ch) \o "%",
                       detectionMethod |-> "edge_detection"]]

categorizeDetectedFeatures(raw, cw, ch, mode) ==
    LET kept == SelectSeq(raw, PassesFilter)
    IN  [i \in 1 .. Len(kept) |-> CategorizeOne(kept[i], i - 1, cw, ch, mode)]

(***************************************************************************)
(* Inputs of the classifier: raw traces as the tracer returns them         *)
(* (type "hull_profile", confidence 0.8), on a landscape and a portrait    *)
(* canvas.                                                                 *)
(***************************************************************************)
Canvases == { <<500, 400>>, <<400, 500>> }

ConversionModes == {"yacht", "interior", "general"}

HLine(x0, y, len) == <<Pt(x0, y), Pt(x0 + len \div 2, y), Pt(x0 + len, y)>>
VLine(x, y0, len) == <<Pt(x, y0), Pt(x, y0 + len \div 2), Pt(x, y0 + len)>>

RawPointLists ==
    { HLine(100, 360, 200), HLine(100, 100, 200), HLine(100, 200, 200),
      HLine(100, 120, 200), HLine(100, 280, 200), HLine(100, 150, 200), HLine(100, 350, 200),
      <<Pt(100, 270), Pt(200, 330), Pt(300, 270)>>,
      <<Pt(300, 360), Pt(200, 360), Pt(100, 360)>>,
      <<Pt(100, 350), Pt(150, 250), Pt(250, 250), Pt(300, 350)>>,
      HLine(100, 200, 150), HLine(100, 200, 120),
      VLine(250, 100, 200), VLine(250, 100, 160), VLine(250, 50, 300),
      <<Pt(100, 100), Pt(200, 200), Pt(300, 300)>>,
      HLine(100, 200, 80), HLine(100, 200, 70), HLine(100, 200, 60),
      HLine(100, 200, 30), HLine(100, 200, 20), HLine(100, 200, 19),
      <<Pt(100, 100), Pt(106, 108), Pt(112, 116)>>,
      <<Pt(100, 360), Pt(300, 360)>>,
      <<Pt(100, 100), Pt(200, 100), Pt(100, 100)>>,
      <<Pt(5, 5)>>,
      <<>> }

RawPool == { RawFeature(pts) : pts \in RawPointLists }

RawLists == UNION { [1 .. k -> RawPool] : k \in 0 .. MaxRaw }

ClassifyInit ==
    /\ UploadIdle /\ TraceIdle /\ EdgeIdle /\ CadIdle /\ AppIdle
    /\ rawFeatures \in RawLists
    /\ \E c \in Canvases : canvasWidth = c[1] /\ canvasHeight = c[2]
    /\ conversionMode \in ConversionModes
    /\ categorized = [done |-> FALSE, value |-> <<>>]

CallCategorize ==
    /\ ~categorized.done
    /\ categorized' =
         [done |-> TRUE,
          value |-> categorizeDetectedFeatures(rawFeatures, canvasWidth, canvasHeight,
                                               conversionMode)]
    /\ UNCHANGED <<rawFeatures, canvasWidth, canvasHeight, conversionMode>>
    /\ UNCHANGED <<uploadVars, traceVars, edgeVars, cadVars, appVars>>

ClassifyNext == CallCategorize

SpecClassify == ClassifyInit /\ [][ClassifyNext]_vars

(***************************************************************************)
(* Claims about the classifier.                                            *)
(***************************************************************************)
Labelled(f) == <<f.type, f.confidence>>

\* The yacht table of the claim, on chord length L (as L * L), |dx|, |dy| and
\* the centroid's y (as the sum of the y's over n points).
YachtTable(pts, cw, ch) ==
    LET L2 == ChordSq(pts)
        n == Len(pts)
        sy == SumY(pts)
        m == IF cw < ch THEN cw ELSE ch
    IN  IF DeltaX(pts) > DeltaY(pts) /\ 100 * L2 > 9 * cw * cw
        THEN IF 10 * sy > 7 * ch * n THEN <<"waterline", 90>>
             ELSE IF 10 * sy < 3 * ch * n THEN <<"deck_edge", 80>>
             ELSE <<"hull_profile", 85>>
        ELSE IF DeltaY(pts) > DeltaX(pts) /\ 25 * L2 > 4 * ch * ch THEN <<"mast", 80>>
        ELSE IF 25 * L2 > m * m THEN <<"hull_profile", 75>>
        ELSE <<"deck_edge", 60>>

\* C3: in yacht mode every surviving trace carries the label and confidence of
\* the yacht table; a horizontal trace spanning 40% of a 500-wide canvas whose
\* centroid lies at 0.9 of the height is waterline with confidence 0.9.
C3_YachtLabels ==
    (categorized.done /\ conversionMode = "yacht") =>
        \A i \in 1 .. Len(categorized.value) :
            LET f == categorized.value[i]
            IN  /\ Labelled(f) = YachtTable(f.points, canvasWidth, canvasHeight)
                /\ ( /\ canvasWidth = 500
                     /\ DeltaY(f.points) = 0
                     /\ DeltaX(f.points) = 200
                     /\ 10 * SumY(f.points) = 9 * canvasHeight * Len(f.points) )
                   => Labelled(f) = <<"waterline", 90>>

C3_Witness ==
    /\ categorized.done
    /\ conversionMode = "yacht"
    /\ canvasWidth = 500
    /\ Len(categorized.value) = 2
    /\ categorized.value[1].points = HLine(100, 360, 200)
    /\ Labelled(categorized.value[1]) = <<"waterline", 90>>
    /\ Labelled(categorized.value[2]) = <<"deck_edge", 60>>

\* The interior/general table of the claim; "medium length" is the code's
\* L > 0.15 * min(width, height).
InteriorTable(pts, cw, ch) ==
    LET L2 == ChordSq(pts)
        n == Len(pts)
        sy == SumY(pts)
        m == IF cw < ch THEN cw ELSE ch
    IN  IF DeltaX(pts) > DeltaY(pts) /\ 100 * L2 > 9 * cw * cw
        THEN IF 10 * sy < 3 * ch * n THEN <<"deck_edge", 80>>
             ELSE IF 10 * sy > 7 * ch * n THEN <<"waterline", 80>>
             ELSE <<"hull_profile", 70>>
        ELSE IF DeltaY(pts) > DeltaX(pts) /\ 25 * L2 > 4 * ch * ch THEN <<"mast", 80>>
        ELSE IF 400 * L2 > 9 * m * m THEN <<"cabin", 70>>
        ELSE <<"keel", 60>>

\* C4: in interior and general mode every surviving trace carries the label and
\* confidence of the interior table, whatever its position in the list: two
\* traces with the same points get the same label and confidence.
C4_InteriorLabels ==
    (categorized.done /\ conversionMode \in {"interior", "general"}) =>
        /\ \A i \in 1 .. Len(categorized.value) :
              Labelled(categorized.value[i])
                  = InteriorTable(categorized.value[i].points, canvasWidth, canvasHeight)
        /\ \A i \in 1 .. Len(categorized.value) : \A j \in 1 .. Len(categorized.value) :
              categorized.value[i].points = categorized.value[j].points
                  => Labelled(categorized.value[i]) = Labelled(categorized.value[j])

\* The same short trace at positions 0 and 1, where the round-robin seed differs.
C4_Witness ==
    /\ categorized.done
    /\ conversionMode = "general"
    /\ Len(categorized.value) = 2
    /\ categorized.value[1].points = categorized.value[2].points
    /\ Labelled(categorized.value[2]) = <<"keel", 60>>

\* The positions of the raw traces with at least 3 points and a chord of at
\* least 20 pixels.
KeptPositions ==
    { i \in 1 .. Len(rawFeatures) :
        /\ Len(rawFeatures[i].points) >= 3
        /\ ChordSq(rawFeatures[i].points) >= 20 * 20 }

\* C5: the output holds exactly the input traces with at least 3 points and a
\* first-to-last distance of at least 20 pixels, in input order; an empty input
\* gives an empty output.
C5_FilterKeeps ==
    categorized.done =>
        /\ Len(categorized.value) = Cardinality(KeptPositions)
        /\ \A i \in KeptPositions :
              categorized.value[Cardinality({ j \in KeptPositions : j <= i })].points
                  = rawFeatures[i].points
        /\ \A k \in 1 .. Len(categorized.value) :
              /\ Len(categorized.value[k].points) >= 3
              /\ ChordSq(categorized.value[k].points) >= 20 * 20
        /\ (rawFeatures = <<>> => categorized.value = <<>>)

\* A trace of 3 points with a chord of 19 dropped before one of exactly 20 kept.
C5_Witness ==
    /\ categorized.done
    /\ Len(rawFeatures) = 2
    /\ Len(rawFeatures[1].points) = 3
    /\ ChordSq(rawFeatures[1].points) = 19 * 19
    /\ Len(rawFeatures[2].points) = 3
    /\ ChordSq(rawFeatures[2].points) = 20 * 20
    /\ Len(categorized.value) = 1
    /\ categorized.value[1].points = rawFeatures[2].points

(***************************************************************************)
(* The edge operators and applyEdgeDetection (cadGeneration.ts).           *)
(*                                                                         *)
(* Thresholds are integers, so magnitude > threshold for                   *)
(* magnitude = Math.sqrt(gx * gx + gy * gy) is decided on the squares.     *)
(***************************************************************************)
EdgeW == 3
\* Rows of the 3x3 kernels: the input images are one kernel window high.
KernelRows == 3

\* new ImageData(width, height): transparent black
BlankDataMutant(w, h) == [i \in 0 .. (4 * w * h - 1) |-> 255]
BlankData(w, h) == [i \in 0 .. (4 * w * h - 1) |-> 0]

\* magnitude > threshold
MagnitudeGtMutant(gx, gy, t) == IF t < 0 THEN TRUE ELSE gx * gx + gy * gy >= t * t
MagnitudeGt(gx, gy, t) == IF t < 0 THEN TRUE ELSE gx * gx + gy * gy > t * t

\* The body of applySobelEdgeDetection's loops for pixel (x, y): the edge value.
SobelEdge(data, w, x, y, t) ==
    LET tl == data[((y - 1) * w + (x - 1)) * 4]
        tm == data[((y - 1) * w + x) * 4]
        tr == data[((y - 1) * w + (x + 1)) * 4]
        ml == data[(y * w + (x - 1)) * 4]
        mr == data[(y * w + (x + 1)) * 4]
        bl == data[((y + 1) * w + (x - 1)) * 4]
        bm == data[((y + 1) * w + x) * 4]
        br == data[((y + 1) * w + (x + 1)) * 4]
        gx == tr + 2 * mr + br - (tl + 2 * ml + bl)
        gy == bl + 2 * bm + br - (tl + 2 * tm + tr)
    IN  IF MagnitudeGt(gx, gy, t) THEN 255 ELSE 0

\* for (y = 1; y < height - 1; y++) for (x = 1; x < width - 1; x++)
Interior(w, h, x, y) == x >= 1 /\ x < w - 1 /\ y >= 1 /\ y < h - 1

applySobelEdgeDetection(data, w, h, t) ==
    [width |-> w, height |-> h,
     data |-> [i \in 0 .. (4 * w * h - 1) |->
                 LET x == (i \div 4) % w
                     y == (i \div 4) \div w
                 IN  IF Interior(w, h, x, y)
                     THEN IF i % 4 = 3 THEN 255 ELSE SobelEdge(data, w, x, y, t)
                     ELSE BlankData(w, h)[i]]]

kernel == << <<0, -1, 0>>, <<-1, 4, -1>>, <<0, -1, 0>> >>

\* sum += data[pixelIdx] * kernel[ky + 1][kx + 1] over ky, kx in -1..1
RECURSIVE LaplacianSum(_, _, _, _, _)
LaplacianSum(data, w, x, y, k) ==
    IF k = 9 THEN 0
    ELSE LET ky == (k \div 3) - 1
             kx == (k % 3) - 1
         IN  data[((y + ky) * w + (x + kx)) * 4] * kernel[ky + 2][kx + 2]
             + LaplacianSum(data, w, x, y, k + 1)

\* Math.abs(sum) > threshold
AbsGtMutant(sum, t) == sum > t
AbsGt(sum, t) == Abs(sum) > t

LaplacianEdge(data, w, x, y, t) ==
    IF AbsGt(LaplacianSum(data, w, x, y, 0), t) THEN 255 ELSE 0

applyLaplacianEdgeDetection(data, w, h, t) ==
    [width |-> w, height |-> h,
     data |-> [i \in 0 .. (4 * w * h - 1) |->
                 LET x == (i \div 4) % w
                     y == (i \div 4) \div w
                 IN  IF Interior(w, h, x, y)
                     THEN IF i % 4 = 3 THEN 255 ELSE LaplacianEdge(data, w, x, y, t)
                     ELSE BlankData(w, h)[i]]]

\* Storing the number n / 1000 into a Uint8ClampedArray: clamp to 0..255 and
\* round to the nearest integer, ties to even.
ToUint8Clamp(n) ==
    LET f == n \div 1000
        r == n % 1000
        rounded == IF r > 500 THEN f + 1
                   ELSE IF r < 500 THEN f
                   ELSE IF f % 2 = 0 THEN f ELSE f + 1
    IN  IF rounded < 0 THEN 0 ELSE IF rounded > 255 THEN 255 ELSE rounded

\* Storing n / 1000 with the fraction cut off instead of rounded.
ToUint8TruncMutant(n) ==
    IF n \div 1000 < 0 THEN 0 ELSE IF n \div 1000 > 255 THEN 255 ELSE n \div 1000

\* r * 0.299 + g * 0.587 + b * 0.114 as the doubles give it, in thousandths.
\* The doubles miss the exact sum by far less than a thousandth, which shows
\* only where the exact sum lies halfway between two integers: there the
\* double sum is the exact half (4.5 for 12, 0, 8), or falls just below it
\* (15.499999999999998 for 8, 20, 12) or just above it (60.50000000000001 for
\* 34, 84, 9).  The two sets list the colours among those tried where it falls
\* beside the half; one thousandth less or more stands for such a sum.
DoubleSum(r, g, b) ==
    LET n == 299 * r + 587 * g + 114 * b
        justBelow == { <<8, 20, 12>>, <<5, 17, 9>> }
        justAbove == { <<34, 84, 9>>, <<63, 65, 22>> }
    IN  IF <<r, g, b>> \in justBelow THEN n - 1
        ELSE IF <<r, g, b>> \in justAbove THEN n + 1
        ELSE n

\* The value the grayscale loop stores for a pixel of colour r, g, b.
GrayMutant(r, g, b) == ToUint8TruncMutant(DoubleSum(r, g, b))
Gray(r, g, b) == ToUint8Clamp(DoubleSum(r, g, b))

\* The grayscale loop: gray = R * 0.299 + G * 0.587 + B * 0.114 written to R, G, B.
Grayscale(data) ==
    [i \in DOMAIN data |->
        IF i % 4 = 3 THEN data[i]
        ELSE LET b == i - (i % 4)
             IN  Gray(data[b], data[b + 1], data[b + 2])]

applyEdgeDetectionMutant(img, method, t) ==
    LET data == Grayscale(img.data)
    IN  CASE method = "canny" -> applyLaplacianEdgeDetection(data, img.width, img.height, t)
          [] method = "sobel" -> applySobelEdgeDetection(data, img.width, img.height, t)
          [] method = "laplacian" -> applyLaplacianEdgeDetection(data, img.width, img.height, t)
          [] OTHER -> img
applyEdgeDetection(img, method, t) ==
    LET data == Grayscale(img.data)
    IN  CASE method \in {"canny", "sobel"} ->
               applySobelEdgeDetection(data, img.width, img.height, t)
          [] method = "laplacian" ->
               applyLaplacianEdgeDetection(data, img.width, img.height, t)
          [] OTHER -> img

(***************************************************************************)
(* Inputs of the edge operators: every image of two colours whose channels *)
(* differ (so that the channel read and the grayscale step matter), with   *)
(* thresholds that some gradient equals exactly.                           *)
(***************************************************************************)
Palette == { <<255, 0, 0, 255>>, <<0, 255, 255, 0>> }

ColourImage(w, h, f) ==
    [width |-> w, height |-> h,
     data |-> [i \in 0 .. (4 * w * h - 1) |-> f[i \div 4][(i % 4) + 1]]]

EdgeImages ==
    { ColourImage(EdgeW, KernelRows, f) : f \in [0 .. (EdgeW * KernelRows - 1) -> Palette] }

Thresholds == {100, 206, 510}

EdgeInit ==
    /\ UploadIdle /\ TraceIdle /\ ClassIdle /\ CadIdle /\ AppIdle
    /\ edgeImage \in EdgeImages
    /\ threshold \in Thresholds
    /\ operatorOut = [op |-> "none", image |-> NoImage]
    /\ edgeOut = [m \in EdgeMethods |-> NoImage]

\* A behaviour either calls one operator directly on edgeImage.data or calls
\* applyEdgeDetection on edgeImage, once for each method.
NoEdgeCallYet == \A m \in EdgeMethods : edgeOut[m] = NoImage

CallSobel ==
    /\ operatorOut.op = "none"
    /\ NoEdgeCallYet
    /\ operatorOut' =
         [op |-> "sobel",
          image |-> applySobelEdgeDetection(edgeImage.data, edgeImage.width,
                                            edgeImage.height, threshold)]
    /\ UNCHANGED <<edgeImage, threshold, edgeOut>>
    /\ UNCHANGED <<uploadVars, traceVars, classVars, cadVars, appVars>>

CallLaplacian ==
    /\ operatorOut.op = "none"
    /\ NoEdgeCallYet
    /\ operatorOut' =
         [op |-> "laplacian",
          image |-> applyLaplacianEdgeDetection(edgeImage.data, edgeImage.width,
                                                edgeImage.height, threshold)]
    /\ UNCHANGED <<edgeImage, threshold, edgeOut>>
    /\ UNCHANGED <<uploadVars, traceVars, classVars, cadVars, appVars>>

CallApplyEdgeDetection ==
    /\ operatorOut.op = "none"
    /\ \E m \in EdgeMethods :
          /\ edgeOut[m] = NoImage
          /\ edgeOut' = [edgeOut EXCEPT ![m] = applyEdgeDetection(edgeImage, m, threshold)]
    /\ UNCHANGED <<edgeImage, threshold, operatorOut>>
    /\ UNCHANGED <<uploadVars, traceVars, classVars, cadVars, appVars>>

EdgeNext == CallSobel \/ CallLaplacian \/ CallApplyEdgeDetection

SpecEdge == EdgeInit /\ [][EdgeNext]_vars

(***************************************************************************)
(* Claims about the edge operators.                                        *)
(***************************************************************************)
SobelX == << <<-1, 0, 1>>, <<-2, 0, 2>>, <<-1, 0, 1>> >>
SobelY == << <<-1, -2, -1>>, <<0, 0, 0>>, <<1, 2, 1>> >>

\* The response of a 3x3 kernel k at (x, y) on channel 0 of img.
Response(k, img, x, y) ==
    LET term(j) == k[(j \div 3) + 1][(j % 3) + 1]
                   * img.data[((y + (j \div 3) - 1) * img.width + (x + (j % 3) - 1)) * 4]
    IN  term(0) + term(1) + term(2) + term(3) + term(4) + term(5) + term(6) + term(7) + term(8)

InteriorPixels(img) ==
    { p \in AllPixels(img) :
        p.x >= 1 /\ p.x <= img.width - 2 /\ p.y >= 1 /\ p.y <= img.height - 2 }

\* R, G, B, A of pixel p of img
Rgba(img, p) ==
    LET idx == (p.y * img.width + p.x) * 4
    IN  <<img.data[idx], img.data[idx + 1], img.data[idx + 2], img.data[idx + 3]>>

\* C6: applySobelEdgeDetection sets each interior pixel to 255 in R, G, B when
\* sqrt(Gx^2 + Gy^2) > threshold (strictly) and to 0 otherwise, with Gx, Gy the
\* standard Sobel responses on channel 0 of its input, and its alpha to 255.
C6_SobelInterior ==
    operatorOut.op = "sobel" =>
        \A p \in InteriorPixels(edgeImage) :
            LET gx == Response(SobelX, edgeImage, p.x, p.y)
                gy == Response(SobelY, edgeImage, p.x, p.y)
                e == IF gx * gx + gy * gy > threshold * threshold THEN 255 ELSE 0
            IN  Rgba(operatorOut.image, p) = <<e, e, e, 255>>

\* The gradient magnitude equals the threshold exactly: no edge.
C6_Witness ==
    /\ operatorOut.op = "sobel"
    /\ threshold > 0
    /\ \E p \in InteriorPixels(edgeImage) :
          /\ Response(SobelX, edgeImage, p.x, p.y) * Response(SobelX, edgeImage, p.x, p.y)
             + Response(SobelY, edgeImage, p.x, p.y) * Response(SobelY, edgeImage, p.x, p.y)
             = threshold * threshold
          /\ Rgba(operatorOut.image, p) = <<0, 0, 0, 255>>

\* C7: applyLaplacianEdgeDetection sets each interior pixel to 255 in R, G, B when
\* |4c - (up + down + left + right)| > threshold (strictly) and to 0 otherwise,
\* on channel 0 of its input.
C7_LaplacianInterior ==
    operatorOut.op = "laplacian" =>
        \A p \in InteriorPixels(edgeImage) :
            LET c == edgeImage.data[(p.y * edgeImage.width + p.x) * 4]
                up == edgeImage.data[((p.y - 1) * edgeImage.width + p.x) * 4]
                down == edgeImage.data[((p.y + 1) * edgeImage.width + p.x) * 4]
                left == edgeImage.data[(p.y * edgeImage.width + p.x - 1) * 4]
                right == edgeImage.data[(p.y * edgeImage.width + p.x + 1) * 4]
                v == 4 * c - (up + down + left + right)
                e == IF (IF v < 0 THEN -v ELSE v) > threshold THEN 255 ELSE 0
            IN  /\ Rgba(operatorOut.image, p)[1] = e
                /\ Rgba(operatorOut.image, p)[2] = e
                /\ Rgba(operatorOut.image, p)[3] = e

\* A dark pixel among bright neighbours: the sum is negative, its size above the
\* threshold.
C7_Witness ==
    /\ operatorOut.op = "laplacian"
    /\ \E p \in InteriorPixels(edgeImage) :
          /\ Response(kernel, edgeImage, p.x, p.y) < 0 - threshold
          /\ Rgba(operatorOut.image, p) = <<255, 255, 255, 255>>

MaxCadFeatures == 2

RECURSIVE Concat(_)
Concat(seqs) == IF seqs = <<>> THEN <<>> ELSE Head(seqs) \o Concat(Tail(seqs))

\* type.toUpperCase()
ToUpperCase(t) ==
    CASE t = "hull_profile" -> "HULL_PROFILE"
      [] t = "waterline" -> "WATERLINE"
      [] t = "mast" -> "MAST"
      [] t = "deck_edge" -> "DECK_EDGE"
      [] t = "cabin" -> "CABIN"
      [] t = "keel" -> "KEEL"

Pad3(r) == IF r < 10 THEN "00" \o ToString(r) ELSE IF r < 100 THEN "0" \o ToString(r) ELSE ToString(r)

\* The number q / 1000 as Number.prototype.toString prints it.
NumStr(q) ==
    LET a == Abs(q)
        r == a % 1000
        frac == IF r = 0 THEN ""
                ELSE IF r % 100 = 0 THEN "." \o ToString(r \div 100)
                ELSE IF r % 10 = 0 THEN "." \o SubSeq(Pad3(r), 1, 2)
                ELSE "." \o Pad3(r)
    IN  (IF q < 0 THEN "-" ELSE "") \o ToString(a \div 1000) \o frac

\* x / scale rounded to thousandths (half away from zero), for scale # 0.
DivRound3(x, sc) == (2000 * Abs(x) + Abs(sc)) \div (2 * Abs(sc))

\* (x / scale).toFixed(3)
DivFixed3(x, sc) ==
    IF sc = 0
    THEN IF x = 0 THEN "NaN" ELSE IF x > 0 THEN "Infinity" ELSE "-Infinity"
    ELSE LET q == DivRound3(x, sc)
         IN  (IF x # 0 /\ ((x < 0) # (sc < 0)) THEN "-" ELSE "")
             \o ToString(q \div 1000) \o "." \o Pad3(q % 1000)

\* parseFloat((x / scale).toFixed(3)) as JSON.stringify prints it
DivJson3Mutant(x, sc) == NumStr(x)
DivJson3(x, sc) ==
    IF sc = 0 THEN "null"
    ELSE NumStr(IF (x < 0) # (sc < 0) THEN 0 - DivRound3(x, sc) ELSE DivRound3(x, sc))

IsProfile(feature) == feature.type = "hull_profile" \/ feature.type = "deck_edge"

\* The lines generateDXF appends for the feature at position index (0-based).
DxfEntity(feature, index, sc) ==
    LET layer == ToUpperCase(feature.type)
        pts == feature.points
    IN  IF IsProfile(feature)
        THEN <<"0", "POLYLINE", "8", layer, "62", ToString(index + 1), "70", "0">>
             \o Concat([i \in 1 .. Len(pts) |->
                          <<"0", "VERTEX", "8", layer,
                            "10", DivFixed3(pts[i].x, sc),
                            "20", DivFixed3(pts[i].y, sc)>>])
             \o <<"0", "SEQEND">>
        ELSE IF Len(pts) >= 2
        THEN <<"0", "LINE", "8", layer, "62", ToString(index + 1),
               "10", DivFixed3(pts[1].x, sc),
               "20", DivFixed3(pts[1].y, sc),
               "11", DivFixed3(pts[Len(pts)].x, sc),
               "21", DivFixed3(pts[Len(pts)].y, sc)>>
        ELSE <<>>

generateDXF(feats, sc) ==
    <<"0", "SECTION", "2", "ENTITIES">>
    \o Concat([i \in 1 .. Len(feats) |-> DxfEntity(feats[i], i - 1, sc)])
    \o <<"0", "ENDSEC", "0", "EOF">>

RECURSIVE SvgPathRest(_, _)
SvgPathRest(pts, i) ==
    IF i > Len(pts) THEN ""
    ELSE " L " \o NumStr(pts[i].x) \o " " \o NumStr(pts[i].y) \o SvgPathRest(pts, i + 1)

\* The lines generateSVG appends for one feature.
SvgElement(feature) ==
    LET pts == feature.points
    IN  IF IsProfile(feature)
        THEN IF Len(pts) > 0
             THEN << "  <path d=\"M " \o NumStr(pts[1].x) \o " " \o NumStr(pts[1].y)
                     \o SvgPathRest(pts, 2) \o "\" class=\"" \o feature.type \o "\" />" >>
             ELSE <<>>
        ELSE IF Len(pts) >= 2
        THEN << "  <line x1=\"" \o NumStr(pts[1].x) \o "\" y1=\"" \o NumStr(pts[1].y)
                \o "\" x2=\"" \o NumStr(pts[Len(pts)].x) \o "\" y2=\"" \o NumStr(pts[Len(pts)].y)
                \o "\" class=\"" \o feature.type \o "\" />" >>
        ELSE <<>>

SvgHeader(cw, ch) ==
    << "<svg width=\"" \o ToString(cw) \o "\" height=\"" \o ToString(ch)
       \o "\" xmlns=\"http://www.w3.org/2000/svg\">",
       "  <defs>",
       "    <style>",
       "      .hull_profile { stroke: #2c5aa0; stroke-width: 2; fill: none; }",
       "      .waterline { stroke: #4a90e2; stroke-width: 3; }",
       "      .mast { stroke: #8b4513; stroke-width: 4; }",
       "      .deck_edge { stroke: #d2b48c; stroke-width: 2; fill: none; }",
       "      .cabin { stroke: #8fbc8f; stroke-width: 2; fill: none; }",
       "      .keel { stroke: #2f4f4f; stroke-width: 3; }",
       "    </style>",
       "  </defs>" >>

\* The scale parameter is not used.
generateSVG(feats, sc, cw, ch) ==
    SvgHeader(cw, ch)
    \o Concat([i \in 1 .. Len(feats) |-> SvgElement(feats[i])])
    \o <<"</svg>">>

NoOriginalImage == [present |-> FALSE]

\* The object generateJSON hands to JSON.stringify (an undefined property is
\* not printed; the timestamp is the clock's reading).
generateJSON(feats, sc, refs, cw, ch, originalImage) ==
    [metadata |->
        [generator |-> "Yacht Photo to CAD Converter v2.0",
         scale |-> NumStr(sc),
         units |-> "meters",
         timestamp |-> "new Date().toISOString()",
         imageInfo |->
            IF originalImage.present
            THEN [width |-> cw, height |-> ch,
                  originalDimensions |-> [width |-> originalImage.naturalWidth,
                                          height |-> originalImage.naturalHeight]]
            ELSE [width |-> cw, height |-> ch]],
     features |->
        [i \in 1 .. Len(feats) |->
            [feats[i] EXCEPT !.points =
                [j \in 1 .. Len(feats[i].points) |->
                    [x |-> DivJson3(feats[i].points[j].x, sc),
                     y |-> DivJson3(feats[i].points[j].y, sc)]]]],
     referencePoints |->
        [i \in 1 .. Len(refs) |->
            [x |-> DivJson3(refs[i].x, sc), y |-> DivJson3(refs[i].y, sc), id |-> refs[i].id]]]

\* The text returned: lines for DXF and SVG, the one JSON document, "" otherwise.
generateCADOutput(feats, format, sc, refs, cw, ch, originalImage) ==
    CASE format = "dxf" -> generateDXF(feats, sc)
      [] format = "svg" -> generateSVG(feats, sc, cw, ch)
      [] format = "json" -> <<generateJSON(feats, sc, refs, cw, ch, originalImage)>>
      [] OTHER -> <<>>

(***************************************************************************)
(* Inputs of the serializer: labelled features of every kind with 0 to 3   *)
(* points (a non-profile feature has at least one), scales 1, 2 and 3.     *)
(***************************************************************************)
OutputFormats == {"dxf", "svg", "json"}

CadFeature(t, pts) ==
    [type |-> t, points |-> pts, confidence |-> 80,
     metadata |-> [detectionMethod |-> "edge_detection"]]

CadPool ==
    LET p == Pt(100000, 50000)
        q == Pt(7500, 20000)
        r == Pt(10000, 0)
    IN  { CadFeature("hull_profile", <<>>), CadFeature("hull_profile", <<p>>),
          CadFeature("hull_profile", <<p, q, r>>), CadFeature("deck_edge", <<q, p>>),
          CadFeature("mast", <<p>>), CadFeature("mast", <<q, r>>),
          CadFeature("waterline", <<p, q, r>>), CadFeature("cabin", <<r, p>>),
          CadFeature("keel", <<r, q, p>>) }

CadFeatureLists == UNION { [1 .. k -> CadPool] : k \in 0 .. MaxCadFeatures }

Scales == {1000, 2000, 3000}

ReferencePointLists == { <<>>, <<[x |-> 100000, y |-> 50000, id |-> 0]>> }

CadInit ==
    /\ UploadIdle /\ TraceIdle /\ EdgeIdle /\ AppIdle
    /\ rawFeatures = <<>>
    /\ conversionMode = "yacht"
    /\ categorized = [done |-> FALSE, value |-> <<>>]
    /\ canvasWidth = 500
    /\ canvasHeight = 400
    /\ cadFeatures \in CadFeatureLists
    /\ outputFormat \in OutputFormats
    /\ scale \in Scales
    /\ referencePoints \in ReferencePointLists
    /\ cadOutput = [done |-> FALSE, text |-> <<>>]

CallGenerateCADOutput ==
    /\ ~cadOutput.done
    /\ cadOutput' =
         [done |-> TRUE,
          text |-> generateCADOutput(cadFeatures, outputFormat, scale, referencePoints,
                                     canvasWidth, canvasHeight, NoOriginalImage)]
    /\ UNCHANGED <<cadFeatures, outputFormat, scale, referencePoints>>
    /\ UNCHANGED <<uploadVars, traceVars, classVars, edgeVars, appVars>>

CadNext == CallGenerateCADOutput

SpecCad == CadInit /\ [][CadNext]_vars

(***************************************************************************)
(* Claims about the serializer.  A DXF text is read back as its group      *)
(* (code, value) pairs, cut into records at each group code 0.             *)
(***************************************************************************)
DxfPairs(lines) == [i \in 1 .. (Len(lines) \div 2) |-> <<lines[2 * i - 1], lines[2 * i]>>]

RECURSIVE DxfRecords(_)
DxfRecords(pairs) ==
    IF pairs = <<>> THEN <<>>
    ELSE LET rest == DxfRecords(Tail(pairs))
         IN  IF rest # <<>> /\ Head(rest)[1][1] # "0"
             THEN << <<Head(pairs)>> \o Head(rest) >> \o Tail(rest)
             ELSE << <<Head(pairs)>> >> \o rest

\* The values a record holds under a group code, in order.
DxfField(rec, code) ==
    LET hits == SelectSeq(rec, LAMBDA pr : pr[1] = code)
    IN  [i \in 1 .. Len(hits) |-> hits[i][2]]

\* The coordinate values of a text, in order of appearance.
DxfCoordinates(lines) ==
    LET hits == SelectSeq(DxfPairs(lines), LAMBDA pr : pr[1] \in {"10", "20", "11", "21"})
    IN  [i \in 1 .. Len(hits) |-> hits[i][2]]

\* x / scale with 3 decimals, for the positive numbers of the inputs.
Scaled3(x, sc) == ((2000 * x + sc) \div (2 * sc))
Scaled3Str(x, sc) == ToString(Scaled3(x, sc) \div 1000) \o "." \o Pad3(Scaled3(x, sc) % 1000)

\* The coordinates of the points a feature contributes to a drawing: all of
\* them for a profile, the first and the last for another kind drawn as a line.
DrawnPoints(feature) ==
    IF IsProfile(feature) THEN feature.points
    ELSE IF Len(feature.points) >= 2
    THEN <<feature.points[1], feature.points[Len(feature.points)]>>
    ELSE <<>>

DividesExactly(feature, sc) ==
    \A j \in 1 .. Len(feature.points) :
        /\ (1000 * feature.points[j].x) % sc = 0
        /\ (1000 * feature.points[j].y) % sc = 0

ScaledFeature(feature, sc) ==
    [feature EXCEPT !.points =
        [j \in 1 .. Len(feature.points) |->
            Pt((1000 * feature.points[j].x) \div sc, (1000 * feature.points[j].y) \div sc)]]

\* C9 for DXF: the coordinates written are x/scale, y/scale with 3 decimals.
C9_DxfScaled ==
    (cadOutput.done /\ outputFormat = "dxf") =>
        DxfCoordinates(cadOutput.text) =
            Concat([i \in 1 .. Len(cadFeatures) |->
                Concat([j \in 1 .. Len(DrawnPoints(cadFeatures[i])) |->
                    <<Scaled3Str(DrawnPoints(cadFeatures[i])[j].x, scale),
                      Scaled3Str(DrawnPoints(cadFeatures[i])[j].y, scale)>>])])

\* C9 for JSON: the coordinates written are x/scale, y/scale rounded to 3 decimals.
C9_JsonScaled ==
    (cadOutput.done /\ outputFormat = "json") =>
        LET doc == cadOutput.text[1]
        IN  /\ Len(doc.features) = Len(cadFeatures)
            /\ \A i \in 1 .. Len(cadFeatures) :
                 /\ Len(doc.features[i].points) = Len(cadFeatures[i].points)
                 /\ \A j \in 1 .. Len(cadFeatures[i].points) :
                      doc.features[i].points[j] =
                          [x |-> NumStr(Scaled3(cadFeatures[i].points[j].x, scale)),
                           y |-> NumStr(Scaled3(cadFeatures[i].points[j].y, scale))]

\* C9 for SVG: the elements drawn are those of the features with their
\* coordinates divided by scale (stated where the quotients have at most 3
\* decimals, so that they are written in full).
C9_SvgScaled ==
    (cadOutput.done /\ outputFormat = "svg"
        /\ \A i \in 1 .. Len(cadFeatures) : DividesExactly(cadFeatures[i], scale)) =>
        cadOutput.text =
            SvgHeader(canvasWidth, canvasHeight)
            \o Concat([i \in 1 .. Len(cadFeatures) |->
                         SvgElement(ScaledFeature(cadFeatures[i], scale))])
            \o <<"</svg>">>

\* C9: in every output format (DXF, SVG and JSON) generateCADOutput writes
\* each feature point coordinate as the pixel coordinate divided by scale,
\* with 3 decimal places in DXF and JSON.
C9_AllFormatsScaled == C9_DxfScaled /\ C9_JsonScaled /\ C9_SvgScaled

\* Group 70 of a POLYLINE holds its flags; bit 1 marks it closed.
IsClosedFlag(v) == v \in {"1", "3", "9", "129"}

\* The number of DXF records C10 gives a feature.
EntityRecords(feature) == IF IsProfile(feature) THEN Len(feature.points) + 2 ELSE 1

\* recs is the entity C10 gives the feature.
IsEntityOf(recs, feature, sc) ==
    LET layer == <<ToUpperCase(feature.type)>>
        pts == feature.points
    IN  IF IsProfile(feature)
        THEN /\ recs[1][1] = <<"0", "POLYLINE">>
             /\ DxfField(recs[1], "8") = layer
             /\ Len(DxfField(recs[1], "70")) = 1
             /\ IsClosedFlag(DxfField(recs[1], "70")[1])
             /\ \A j \in 1 .. Len(pts) :
                  /\ recs[j + 1][1] = <<"0", "VERTEX">>
                  /\ DxfField(recs[j + 1], "8") = layer
                  /\ DxfField(recs[j + 1], "10") = <<DivFixed3(pts[j].x, sc)>>
                  /\ DxfField(recs[j + 1], "20") = <<DivFixed3(pts[j].y, sc)>>
             /\ recs[Len(pts) + 2] = <<<<"0", "SEQEND">>>>
        ELSE /\ recs[1][1] = <<"0", "LINE">>
             /\ DxfField(recs[1], "8") = layer
             /\ DxfField(recs[1], "10") = <<DivFixed3(pts[1].x, sc)>>
             /\ DxfField(recs[1], "20") = <<DivFixed3(pts[1].y, sc)>>
             /\ DxfField(recs[1], "11") = <<DivFixed3(pts[Len(pts)].x, sc)>>
             /\ DxfField(recs[1], "21") = <<DivFixed3(pts[Len(pts)].y, sc)>>

\* recs is, feature by feature and in order, the entities of feats.
RECURSIVE AreEntitiesOf(_, _, _)
AreEntitiesOf(recs, feats, sc) ==
    IF feats = <<>> THEN recs = <<>>
    ELSE LET k == EntityRecords(Head(feats))
         IN  /\ Len(recs) >= k
             /\ IsEntityOf(SubSeq(recs, 1, k), Head(feats), sc)
             /\ AreEntitiesOf(SubSeq(recs, k + 1, Len(recs)), Tail(feats), sc)

\* C10: generateDXF emits, between the opening 0/SECTION/2/ENTITIES and the
\* closing 0/ENDSEC/0/EOF, one entity per feature in input order: a closed
\* polyline with exactly one VERTEX per point in point order for a
\* hull_profile or deck_edge feature, a single LINE from the first point to
\* the last for any other kind, each on the layer named by the uppercased
\* kind; an empty feature list gives just the envelope.
C10_DxfEntities ==
    (cadOutput.done /\ outputFormat = "dxf") =>
        LET recs == DxfRecords(DxfPairs(cadOutput.text))
            n == Len(recs)
        IN  /\ Len(cadOutput.text) % 2 = 0
            /\ n >= 3
            /\ recs[1] = <<<<"0", "SECTION">>, <<"2", "ENTITIES">>>>
            /\ recs[n - 1] = <<<<"0", "ENDSEC">>>>
            /\ recs[n] = <<<<"0", "EOF">>>>
            /\ AreEntitiesOf(SubSeq(recs, 2, n - 2), cadFeatures, scale)

(***************************************************************************)
(* JSON.parse on the numbers generateJSON prints: a decimal literal is     *)
(* read digit by digit into thousandths, null stays null.                  *)
(***************************************************************************)
Digit(c) ==
    CASE c = "0" -> 0 [] c = "1" -> 1 [] c = "2" -> 2 [] c = "3" -> 3 [] c = "4" -> 4
      [] c = "5" -> 5 [] c = "6" -> 6 [] c = "7" -> 7 [] c = "8" -> 8 [] c = "9" -> 9

RECURSIVE ParseDigits(_)
ParseDigits(s) ==
    IF Len(s) = 0 THEN 0
    ELSE 10 * ParseDigits(SubSeq(s, 1, Len(s) - 1)) + Digit(SubSeq(s, Len(s), Len(s)))

ParseNumber(s) ==
    LET neg == Len(s) > 0 /\ SubSeq(s, 1, 1) = "-"
        body == IF neg THEN SubSeq(s, 2, Len(s)) ELSE s
        dots == { i \in 1 .. Len(body) : SubSeq(body, i, i) = "." }
        d == IF dots = {} THEN Len(body) + 1 ELSE CHOOSE i \in dots : TRUE
        frac == SubSeq(body, d + 1, Len(body))
        fracMilli == ParseDigits(frac) *
                        (CASE Len(frac) = 0 -> 0 [] Len(frac) = 1 -> 100
                           [] Len(frac) = 2 -> 10 [] OTHER -> 1)
        a == 1000 * ParseDigits(SubSeq(body, 1, d - 1)) + fracMilli
    IN  IF neg THEN 0 - a ELSE a

\* The features of JSON.parse(text): each printed coordinate read back.
ParsedFeatures(doc) ==
    [i \in 1 .. Len(doc.features) |->
        [doc.features[i] EXCEPT !.points =
            [j \in 1 .. Len(doc.features[i].points) |->
                Pt(ParseNumber(doc.features[i].points[j].x),
                   ParseNumber(doc.features[i].points[j].y))]]]

PointArrays(doc) == [i \in 1 .. Len(doc.features) |-> doc.features[i].points]

\* The point arrays of generateJSON applied to the parsed features of doc.
ReserializedPointArrays(doc, sc) ==
    PointArrays(generateJSON(ParsedFeatures(doc), sc, <<>>, canvasWidth, canvasHeight,
                             NoOriginalImage))

AllWrittenZero(doc) ==
    \A i \in 1 .. Len(doc.features) : \A j \in 1 .. Len(doc.features[i].points) :
        doc.features[i].points[j] = [x |-> "0", y |-> "0"]

RECURSIVE GCD(_, _)
GCD(a, b) == IF b = 0 THEN a ELSE GCD(b, a % b)

\* The number n / d, for d # 0.
Frac(n, d) ==
    LET g == GCD(Abs(n), Abs(d))
    IN  IF n = 0 THEN [num |-> 0, den |-> 1]
        ELSE [num |-> (IF d < 0 THEN 0 - n ELSE n) \div g, den |-> Abs(d) \div g]

\* Math.sqrt(Math.pow(point2.x - point1.x, 2) + Math.pow(point2.y - point1.y, 2))
PixelDistance(point1, point2) ==
    LET dx == (point2.x - point1.x) \div 1000
        dy == (point2.y - point1.y) \div 1000
    IN  1000 * ISqrt(dx * dx + dy * dy)

\* knownDistance * 1000
DistanceInMMMutant(kd) == kd
DistanceInMM(kd) == kd * 1000

\* if (scalePoints.length !== 2 || !knownDistance) return;
CalculateScaleReturnsEarly(pts, kd) == Len(pts) # 2 \/ kd = 0

calculatedPixelsPerMM(pts, kd) == Frac(PixelDistance(pts[1], pts[2]), DistanceInMM(kd))

\* setPixelsPerMM(calculatedPixelsPerMM)
SetPixelsPerMMMutant(prev, value) == Frac(prev.num * value.num, prev.den * value.den)
SetPixelsPerMM(prev, value) == value

\* The body of calculateScale; who is the caller's entry in lastCall.
calculateScale(who) ==
    /\ IF CalculateScaleReturnsEarly(scalePoints, knownDistance)
       THEN UNCHANGED <<pixelsPerMM, isScaleMode, calibrationLog>>
       ELSE /\ pixelsPerMM' = SetPixelsPerMM(pixelsPerMM,
                                             calculatedPixelsPerMM(scalePoints, knownDistance))
            /\ isScaleMode' = FALSE
            /\ calibrationLog' =
                 [count |-> calibrationLog.count + 1,
                  last |-> [points |-> scalePoints, distance |-> knownDistance],
                  before |-> pixelsPerMM]
    /\ lastCall' = who
    /\ UNCHANGED <<scalePoints, knownDistance>>

\* A ReferencePoint
RefPt(x, y, id) == [x |-> x, y |-> y, id |-> id]

\* Click positions: a 75-100-125 triangle, and the far corners of a
\* 300-400-500 one.
ClickPositions == { <<100000, 100000>>, <<200000, 100000>>, <<100000, 175000>> }

ScalePointLists ==
    {<<>>}
    \cup { <<RefPt(a[1], a[2], 0)>> : a \in ClickPositions }
    \cup { <<RefPt(a[1], a[2], 0), RefPt(b[1], b[2], 1)>> : a \in ClickPositions, b \in ClickPositions }
    \cup { <<RefPt(0, 0, 0), RefPt(300000, 400000, 1)>> }

\* What the distance field can hold: 0, 0.1, 0.5, -0.1 and the initial 100.
KnownDistances == {0, 100, 500, -100, 100000}

UNCHANGED_AppRest == UNCHANGED <<settings, image, canvasData, isProcessing, detectedFeatures,
                                 isImageFullscreen, run>>

\* calculateScale called in any state of the calibration cells.
CalculateScaleInit ==
    /\ UploadIdle /\ TraceIdle /\ ClassIdle /\ EdgeIdle /\ CadIdle
    /\ settings = DefaultSettings
    /\ isScaleMode \in BOOLEAN
    /\ scalePoints \in ScalePointLists
    /\ knownDistance \in KnownDistances
    /\ pixelsPerMM \in {One, Frac(3, 4)}
    /\ image = "null"
    /\ canvasData = NoImage
    /\ isProcessing = FALSE
    /\ detectedFeatures = <<>>
    /\ isImageFullscreen = FALSE
    /\ run = NoRun
    /\ calibrationLog = NoCalibration
    /\ lastCall = <<"none">>

CallCalculateScale ==
    /\ lastCall = <<"none">>
    /\ calculateScale(<<"calculateScale">>)
    /\ UNCHANGED_AppRest
    /\ UNCHANGED <<uploadVars, traceVars, classVars, edgeVars, cadVars>>

CalculateScaleNext == CallCalculateScale

SpecCalculateScale == CalculateScaleInit /\ [][CalculateScaleNext]_vars

\* The whole number whose square is n (n a perfect square).
ExactRoot(n) == CHOOSE r \in 0 .. 1000 : r * r = n

PixelDistanceSq(pts) ==
    ((pts[2].x - pts[1].x) \div 1000) * ((pts[2].x - pts[1].x) \div 1000)
    + ((pts[2].y - pts[1].y) \div 1000) * ((pts[2].y - pts[1].y) \div 1000)

\* f is (pixel distance of pts) / (kd meters * 1000 mm), kd in thousandths.
IsScaleOf(f, pts, kd) == f.den > 0 /\ f.num * kd = ExactRoot(PixelDistanceSq(pts)) * f.den

MaxReferencePoints == 2
MaxCalibrations == 2

\* A loaded picture as drawn on the canvas: a grey bar on black.
LoadedCanvas == MkImage(24, 4, [i \in 0 .. 95 |-> IF i \div 24 = 1 THEN 40 ELSE 0])

\* A small one, for the handlers that do not read the pixels.
SmallCanvas == MkImage(2, 2, [i \in 0 .. 3 |-> IF i = 1 THEN 40 ELSE 0])

\* ctx.clearRect(0, 0, canvas.width, canvas.height)
ClearRect(img) == [img EXCEPT !.data = [i \in DOMAIN img.data |-> 0]]

\* getInitialMessage() of the effect on settings.conversionMode
InitialMessage(mode) ==
    CASE mode = "yacht" ->
           << "; Yacht CAD Drawing Output", "; Generated from photo analysis", "; ",
              "; Upload a yacht photo to begin conversion process...", "; ",
              "; Features detected will appear here:", "; - Hull profile lines",
              "; - Deck outlines  ", "; - Mast and rigging points", "; - Cabin structures",
              "; - Overall dimensions" >>
      [] mode = "interior" ->
           << "; Interior Component CAD Output", "; Generated from photo analysis", "; ",
              "; Upload a photo of yacht interior components...", "; ",
              "; Components that will be detected:", "; - Cabinet doors and drawers",
              "; - Seating and furniture", "; - Countertops and surfaces",
              "; - Small fittings and hardware", "; - Detailed dimensions in cm" >>
      [] mode = "general" ->
           << "; General Object CAD Output", "; Generated from photo analysis", "; ",
              "; Upload a photo of any object to convert...", "; ",
              "; Objects will be analyzed for:", "; - Basic geometric shapes",
              "; - Overall dimensions", "; - Edge outlines", "; - General proportions" >>
      [] OTHER ->
           << "; CAD Drawing Output", "; Generated from photo analysis",
              "; Upload a photo to begin..." >>

\* The text clearAll puts back.
ClearedMessage ==
    << "; Yacht CAD Drawing Output", "; Generated from photo analysis", "; ",
       "; Upload a yacht photo to begin conversion process..." >>

\* The full-size view covers the page while it is shown.
ModalOpen == isImageFullscreen /\ image # "null"

\* parseFloat(e.target.value) || fallback; the field's text is <<>> when it
\* is no number and <<n>> otherwise.
ParseFloatOr(text, fallback) == IF text = <<>> \/ text[1] = 0 THEN fallback ELSE text[1]

\* What is typed into the scale field: nothing, 0, 2 and -5.
ScaleFieldTexts == { <<>>, <<0>>, <<2000>>, <<-5000>> }

\* What is typed into a distance field: nothing, 0, 0.1 and -0.1.
DistanceFieldTexts == { <<>>, <<0>>, <<100>>, <<-100>> }

\* if (scalePoints.length < 2)
MayAddScalePointMutant(n) == n <= 2
MayAddScalePoint(n) == n < 2

\* id: scalePoints.length / id: referencePoints.length
NewPointIdMutant(collection) == Len(collection) + 1
NewPointId(collection) == Len(collection)

\* The cells and the other functions' variables the calibration handlers leave alone.
CalibrationFrame ==
    /\ UNCHANGED <<canvasWidth, canvasHeight, rawFeatures, conversionMode, categorized>>
    /\ UNCHANGED <<cadFeatures, outputFormat, scale>>
    /\ UNCHANGED <<isProcessing, run>>
    /\ UNCHANGED <<uploadVars, traceVars, edgeVars>>

\* onClick={() => setIsScaleMode(!isScaleMode)}
ToggleScaleMode ==
    /\ ~ModalOpen
    /\ isScaleMode' = ~isScaleMode
    /\ lastCall' = <<"setIsScaleMode">>
    /\ UNCHANGED <<settings, scalePoints, knownDistance, pixelsPerMM, image, canvasData,
                   detectedFeatures, isImageFullscreen, calibrationLog,
                   referencePoints, cadOutput>>
    /\ CalibrationFrame

\* handleCanvasClick at (x, y); mobile is window.innerWidth <= 768.
handleCanvasClick(x, y, mobile) ==
    /\ ~ModalOpen
    /\ IF ~isScaleMode /\ mobile
       THEN /\ isImageFullscreen' = TRUE
            /\ UNCHANGED <<scalePoints, referencePoints>>
       ELSE IF isScaleMode
       THEN /\ scalePoints' = IF MayAddScalePoint(Len(scalePoints))
                              THEN Append(scalePoints, RefPt(x, y, NewPointId(scalePoints)))
                              ELSE scalePoints
            /\ UNCHANGED <<isImageFullscreen, referencePoints>>
       ELSE /\ Len(referencePoints) < MaxReferencePoints
            /\ referencePoints' =
                 Append(referencePoints, RefPt(x, y, NewPointId(referencePoints)))
            /\ UNCHANGED <<isImageFullscreen, scalePoints>>
    /\ lastCall' = <<"handleCanvasClick", x, y>>
    /\ UNCHANGED <<settings, isScaleMode, knownDistance, pixelsPerMM, image, canvasData,
                   detectedFeatures, calibrationLog, cadOutput>>
    /\ CalibrationFrame

CanvasClick ==
    \E pos \in {<<100000, 100000>>, <<200000, 100000>>} : \E mobile \in BOOLEAN :
        handleCanvasClick(pos[1], pos[2], mobile)

\* Either distance field: setKnownDistance(parseFloat(value) || 0), and
\* setKnownDistance(Number(value)) of the field shown in scale mode.
SetKnownDistance ==
    /\ ~ModalOpen
    /\ \E text \in DistanceFieldTexts : knownDistance' = ParseFloatOr(text, 0)
    /\ lastCall' = <<"setKnownDistance">>
    /\ UNCHANGED <<settings, isScaleMode, scalePoints, pixelsPerMM, image, canvasData,
                   detectedFeatures, isImageFullscreen, calibrationLog,
                   referencePoints, cadOutput>>
    /\ CalibrationFrame

\* The Calculate button, rendered while scalePoints.length === 2 && knownDistance > 0.
ClickCalculate ==
    /\ ~ModalOpen
    /\ Len(scalePoints) = 2 /\ knownDistance > 0
    /\ calibrationLog.count < MaxCalibrations
    /\ calculateScale(<<"calculateScale">>)
    /\ UNCHANGED_AppRest
    /\ UNCHANGED <<referencePoints, cadOutput>>
    /\ CalibrationFrame

\* clearScale, from the Clear button (rendered while scalePoints.length > 0 ||
\* pixelsPerMM) or the Clear Scale button (rendered in scale mode).
clearScale ==
    /\ ~ModalOpen
    /\ Len(scalePoints) > 0 \/ pixelsPerMM.num # 0 \/ isScaleMode
    /\ scalePoints' = <<>>
    /\ knownDistance' = 100000
    /\ pixelsPerMM' = One
    /\ isScaleMode' = FALSE
    /\ calibrationLog' = [calibrationLog EXCEPT !.last = NotCalibrated]
    /\ lastCall' = <<"clearScale">>
    /\ UNCHANGED_AppRest
    /\ UNCHANGED <<referencePoints, cadOutput>>
    /\ CalibrationFrame

\* The scale field: scale: parseFloat(e.target.value) || 100
SetScale ==
    /\ ~ModalOpen
    /\ \E text \in ScaleFieldTexts :
          settings' = [settings EXCEPT !.scale = ParseFloatOr(text, 100000)]
    /\ lastCall' = <<"setSettings">>
    /\ UNCHANGED <<isScaleMode, scalePoints, knownDistance, pixelsPerMM, image, canvasData,
                   detectedFeatures, isImageFullscreen, calibrationLog,
                   referencePoints, cadOutput>>
    /\ CalibrationFrame

\* The close button of the full-size view, or a tap on its picture.
CloseFullscreen ==
    /\ ModalOpen
    /\ isImageFullscreen' = FALSE
    /\ lastCall' = <<"setIsImageFullscreen">>
    /\ UNCHANGED <<settings, isScaleMode, scalePoints, knownDistance, pixelsPerMM, image,
                   canvasData, detectedFeatures, calibrationLog, referencePoints, cadOutput>>
    /\ CalibrationFrame

\* clearAll; it leaves a suspended processImage call as it is.
clearAll ==
    /\ ~ModalOpen
    /\ image' = "null"
    /\ referencePoints' = <<>>
    /\ detectedFeatures' = <<>>
    /\ cadOutput' = [done |-> FALSE, text |-> ClearedMessage]
    /\ canvasData' = ClearRect(canvasData)
    /\ lastCall' = <<"clearAll">>
    /\ UNCHANGED <<settings, isScaleMode, scalePoints, knownDistance, pixelsPerMM,
                   isImageFullscreen, calibrationLog>>
    /\ CalibrationFrame

\* The component with a picture loaded and nothing else done yet.
CalibrationInit ==
    /\ UploadIdle /\ TraceIdle /\ EdgeIdle
    /\ rawFeatures = <<>> /\ conversionMode = "yacht"
    /\ categorized = [done |-> FALSE, value |-> <<>>]
    /\ canvasWidth = 0 /\ canvasHeight = 0
    /\ cadFeatures = <<>> /\ outputFormat = "dxf" /\ scale = 0
    /\ referencePoints = <<>>
    /\ cadOutput = [done |-> FALSE, text |-> InitialMessage(DefaultSettings.conversionMode)]
    /\ settings = DefaultSettings
    /\ isScaleMode = FALSE
    /\ scalePoints = <<>>
    /\ knownDistance = 100000
    /\ pixelsPerMM = One
    /\ image = "photo"
    /\ canvasData = SmallCanvas
    /\ isProcessing = FALSE
    /\ detectedFeatures = <<>>
    /\ isImageFullscreen = FALSE
    /\ run = NoRun
    /\ calibrationLog = NoCalibration
    /\ lastCall = <<"none">>

CalibrationNext ==
    \/ ToggleScaleMode
    \/ CanvasClick
    \/ SetKnownDistance
    \/ ClickCalculate
    \/ clearScale
    \/ SetScale
    \/ CloseFullscreen
    \/ clearAll

SpecCalibration == CalibrationInit /\ [][CalibrationNext]_vars

\* C14: after any sequence of calibrations the stored pixelsPerMM is the value
\* computed from the two points and the known distance of the most recent
\* calculateScale that went through, whatever was stored before it (and the
\* initial 1 when there is none since the start or the last clearScale).
C14_LatestCalibrationOnly ==
    IF calibrationLog.last = NotCalibrated
    THEN pixelsPerMM = One
    ELSE IsScaleOf(pixelsPerMM, calibrationLog.last.points, calibrationLog.last.distance)

\* A second calibration (0.1 m) made over the stored result 0.001 of an
\* earlier one (the initial distance 100) on the same two points.
C14_Witness ==
    /\ calibrationLog.count = 2
    /\ calibrationLog.before = Frac(1, 1000)
    /\ calibrationLog.last.points = <<RefPt(100000, 100000, 0), RefPt(200000, 100000, 1)>>
    /\ calibrationLog.last.distance = 100
    /\ pixelsPerMM = One

\* C15: the scale-calibration collection never holds more than 2 points: in
\* scale mode a canvas click appends its position while fewer than 2 exist,
\* and a click with 2 present adds neither a scale point nor a reference point.
C15_AtMostTwoScalePoints ==
    /\ [](Len(scalePoints) <= 2)
    /\ [][(lastCall'[1] = "handleCanvasClick" /\ isScaleMode) =>
            /\ referencePoints' = referencePoints
            /\ IF Len(scalePoints) < 2
               THEN /\ Len(scalePoints') = Len(scalePoints) + 1
                    /\ SubSeq(scalePoints', 1, Len(scalePoints)) = scalePoints
                    /\ scalePoints'[Len(scalePoints')].x = lastCall'[2]
                    /\ scalePoints'[Len(scalePoints')].y = lastCall'[3]
               ELSE scalePoints' = scalePoints]_vars

\* Two scale points placed, then a third click in scale mode on the position
\* of the first: nothing was added.
C15_Witness ==
    /\ isScaleMode
    /\ Len(scalePoints) = 2
    /\ scalePoints[1].x = 100000 /\ scalePoints[2].x = 200000
    /\ lastCall = <<"handleCanvasClick", 100000, 100000>>
    /\ referencePoints = <<>>

\* C16: after any sequence of canvas clicks, clearScale and clearAll the point
\* at position i (from 0) of referencePoints and of scalePoints has id i.
C16_DenseIds ==
    /\ \A i \in 1 .. Len(referencePoints) : referencePoints[i].id = i - 1
    /\ \A i \in 1 .. Len(scalePoints) : scalePoints[i].id = i - 1

\* Both collections refilled with two points each after a clearAll and a clearScale.
C16_Witness ==
    /\ image = "null"
    /\ calibrationLog.count = 1 /\ calibrationLog.last = NotCalibrated
    /\ Len(referencePoints) = 2
    /\ Len(scalePoints) = 2

\* C17: the scale is strictly positive in every reachable state: after any
\* sequence of edits of the scale field, calibrations and clears both
\* settings.scale and pixelsPerMM are > 0.
C17_ScalePositive == settings.scale > 0 /\ pixelsPerMM.num > 0

(***************************************************************************)
(* processImage.  The call runs up to its await, is suspended for the      *)
(* delay, and then runs the pipeline to the end; it reads settings and     *)
(* referencePoints from its closure and the pixels from the canvas.        *)
(***************************************************************************)
MaxRuns == 1

\* traceLine as one call: the points collected and the visited set left.
\* The entries popped and found visited change nothing, so the call goes
\* straight to the topmost entry that is not visited.
RECURSIVE traceLine(_, _, _, _)
traceLine(img, stk, vis, pts) ==
    LET live == {k \in 1 .. Len(stk) : stk[k] \notin vis}
    IN  IF live = {} THEN [points |-> pts, visited |-> vis]
        ELSE LET top == CHOOSE k \in live : \A m \in live : m <= k
                 p == stk[top]
                 rest == SubSeq(stk, 1, top - 1)
                 seen == vis \cup {p}
             IN  IF IsOn(PixelAt(img, p.x, p.y))
                 THEN traceLine(img, rest \o PushedNeighbours(img, p, seen), seen,
                                Append(pts, p))
                 ELSE traceLine(img, rest, seen, pts)

\* The scan of extractLinesFromEdges from pixel idx on: it goes straight to
\* the next pixel that is on and not visited, and traces from there.
RECURSIVE ScanFrom(_, _, _, _, _)
ScanFrom(img, idx, vis, feats, minLen) ==
    LET starts == {i \in idx .. (img.width * img.height - 1) :
                      /\ IsOn(img.data[4 * i])
                      /\ Pt(i % img.width, i \div img.width) \notin vis}
    IN  IF starts = {} THEN feats
        ELSE LET first == CHOOSE i \in starts : \A m \in starts : i <= m
                 t == traceLine(img, <<Pt(first % img.width, first \div img.width)>>, vis, <<>>)
             IN  ScanFrom(img, first + 1, t.visited,
                          IF KeepsTrace(t.points, minLen)
                          THEN Append(feats, RawFeature(t.points)) ELSE feats,
                          minLen)

\* extractLinesFromEdges as one call.
extractLinesFromEdges(img, minLen) == ScanFrom(img, 0, {}, <<>>, minLen)

\* The same features with their coordinates in the serializer's thousandths.
InThousandths(feats) ==
    [i \in 1 .. Len(feats) |->
        [feats[i] EXCEPT !.points =
            [j \in 1 .. Len(feats[i].points) |->
                Pt(1000 * feats[i].points[j].x, 1000 * feats[i].points[j].y)]]]

\* The seventh argument of the call is settings.conversionMode, which
\* generateCADOutput receives as originalImage: a string, so present, and
\* without naturalWidth or naturalHeight.
SeventhArgument(mode) ==
    [present |-> TRUE, naturalWidth |-> "undefined", naturalHeight |-> "undefined"]

\* What a processImage call computes after its delay from the pixels on the
\* canvas and the settings and reference points it uses.
Pipeline(pixels, st, refs) ==
    LET processedData == applyEdgeDetection(pixels, st.edgeMethod, st.threshold)
        \* no pixel of a blank picture is on, so no line starts in it; the comparison
        \* tabulates the pixels once for the scan that follows
        raw == IF processedData = ClearRect(processedData) THEN <<>>
               ELSE extractLinesFromEdges(processedData, 15)
        feats == categorizeDetectedFeatures(raw, pixels.width, pixels.height,
                                            st.conversionMode)
    IN  [processedData |-> processedData,
         features |-> feats,
         output |-> generateCADOutput(InThousandths(feats), st.outputFormat, st.scale, refs,
                                      pixels.width, pixels.height,
                                      SeventhArgument(st.conversionMode))]

\* The settings a resumed call reads.
SettingsOfRunMutant == settings
SettingsOfRun == run.settings

RunFrame ==
    /\ UNCHANGED <<canvasWidth, canvasHeight, rawFeatures, conversionMode, categorized>>
    /\ UNCHANGED <<cadFeatures, outputFormat, scale>>
    /\ UNCHANGED <<isScaleMode, scalePoints, knownDistance, pixelsPerMM, calibrationLog,
                   isImageFullscreen, image>>
    /\ UNCHANGED <<uploadVars, traceVars, edgeVars>>

\* The Process Image button (disabled while !image || isProcessing), up to the await.
ProcessImageStart ==
    /\ ~ModalOpen
    /\ image # "null" /\ ~isProcessing
    /\ run.count < MaxRuns
    /\ isProcessing' = TRUE
    /\ run' = [active |-> TRUE, count |-> run.count + 1, settings |-> settings,
               referencePoints |-> referencePoints]
    /\ lastCall' = <<"processImage", "started">>
    /\ UNCHANGED <<settings, canvasData, detectedFeatures, referencePoints, cadOutput>>
    /\ RunFrame

\* The rest of the call, once the delay is over.
ProcessImageResume ==
    /\ run.active
    /\ LET result == Pipeline(canvasData, SettingsOfRun, run.referencePoints)
       IN  /\ canvasData' = result.processedData
           /\ detectedFeatures' = result.features
           /\ cadOutput' = [done |-> TRUE, text |-> result.output]
    /\ isProcessing' = FALSE
    /\ run' = [run EXCEPT !.active = FALSE]
    /\ lastCall' = <<"processImage", "resumed">>
    /\ UNCHANGED <<settings, referencePoints>>
    /\ RunFrame

\* A select or the threshold slider: setSettings((prev) => ({...prev, field: value})).
\* The effect on settings.conversionMode puts the initial message back when
\* the mode changes.
SetSetting(field, value) ==
    /\ ~ModalOpen
    /\ settings' = [settings EXCEPT ![field] = value]
    /\ cadOutput' = IF field = "conversionMode" /\ value # settings.conversionMode
                    THEN [done |-> FALSE, text |-> InitialMessage(value)]
                    ELSE cadOutput
    /\ lastCall' = <<"setSettings">>
    /\ UNCHANGED <<canvasData, detectedFeatures, referencePoints, isProcessing, run>>
    /\ RunFrame

SetConversionMode == \E v \in {"interior", "yacht"} : SetSetting("conversionMode", v)

SetEdgeMethod == \E v \in {"canny", "laplacian"} : SetSetting("edgeMethod", v)

SetThreshold == \E v \in {100, 50} : SetSetting("threshold", v)

SetOutputFormat == \E v \in {"dxf", "json"} : SetSetting("outputFormat", v)

\* The component as onImageLoad leaves it when a picture is loaded after a
\* reference point was placed on an earlier, larger one, with or without a
\* calibration on (100,100)-(200,100) at 0.5 made there: setImage and
\* drawImageToCanvas keep the points and the scale, and the canvas holds the
\* new picture with no marker drawn on it.
RunInit ==
    /\ UploadIdle /\ TraceIdle /\ EdgeIdle
    /\ rawFeatures = <<>> /\ conversionMode = "yacht"
    /\ categorized = [done |-> FALSE, value |-> <<>>]
    /\ canvasWidth = 0 /\ canvasHeight = 0
    /\ cadFeatures = <<>> /\ outputFormat = "dxf" /\ scale = 0
    /\ referencePoints = <<RefPt(100000, 50000, 0)>>
    /\ cadOutput = [done |-> FALSE, text |-> InitialMessage(DefaultSettings.conversionMode)]
    /\ settings = DefaultSettings
    /\ isScaleMode = FALSE
    /\ \/ /\ scalePoints = <<>>
          /\ knownDistance = 100000
          /\ pixelsPerMM = One
          /\ calibrationLog = NoCalibration
       \/ /\ scalePoints = <<RefPt(100000, 100000, 0), RefPt(200000, 100000, 1)>>
          /\ knownDistance = 500
          /\ pixelsPerMM = Frac(1, 5)
          /\ calibrationLog = [count |-> 1, before |-> One,
                               last |-> [points |-> scalePoints, distance |-> 500]]
    /\ image = "photo"
    /\ canvasData = LoadedCanvas
    /\ isProcessing = FALSE
    /\ detectedFeatures = <<>>
    /\ isImageFullscreen = FALSE
    /\ run = NoRun
    /\ lastCall = <<"none">>

\* The settings tried: the defaults, and the defaults with one control moved.
SettingsTried ==
    {DefaultSettings} \cup
    {st \in [edgeMethod : {"canny", "laplacian"}, threshold : {100, 50},
             scale : {ParseFloatOr(text, 100000) : text \in ScaleFieldTexts},
             outputFormat : {"dxf", "json"}, conversionMode : {"interior", "yacht"}] :
        Cardinality({f \in DOMAIN st : st[f] # DefaultSettings[f]}) = 1}

RunNext ==
    \/ ProcessImageStart
    \/ ProcessImageResume
    \/ SetConversionMode /\ settings' \in SettingsTried
    \/ SetEdgeMethod /\ settings' \in SettingsTried
    \/ SetThreshold /\ settings' \in SettingsTried
    \/ SetOutputFormat /\ settings' \in SettingsTried
    \/ SetScale /\ settings' \in SettingsTried
    \/ clearAll

SpecRun == RunInit /\ [][RunNext]_vars

\* The calibrated scale in the serializer's thousandths, as pixels per
\* millimetre (unit 1) or pixels per metre (unit 1000).
CalibratedScale(unit) == (1000 * unit * pixelsPerMM.num) \div pixelsPerMM.den

\* C18: once a two-point calibration has succeeded, the text a processImage
\* run writes is the one generateCADOutput writes for the detected features
\* with the calibrated scale, in millimetres or in metres.
C18_CalibratedScaleApplied ==
    (lastCall = <<"processImage", "resumed">> /\ calibrationLog.count > 0
        /\ detectedFeatures # <<>>) =>
        \E unit \in {1, 1000} :
            cadOutput.text =
                generateCADOutput(InThousandths(detectedFeatures), run.settings.outputFormat,
                                  CalibratedScale(unit), run.referencePoints,
                                  canvasData.width, canvasData.height,
                                  SeventhArgument(run.settings.conversionMode))

\* C19: a run keeps the settings that were current when it was started: the
\* start captures them, they stay as captured while the run is suspended
\* whatever the controls are set to meanwhile, and the pixels, the features
\* and the text the run leaves are those of the captured settings.
C19_SettingsFixedForRun ==
    [][/\ (~run.active /\ run'.active) => run'.settings = settings
       /\ (run.active /\ run'.active) => run'.settings = run.settings
       /\ (run.active /\ ~run'.active) =>
            LET processedData == applyEdgeDetection(canvasData, run.settings.edgeMethod,
                                                    run.settings.threshold)
                feats == categorizeDetectedFeatures(
                             extractLinesFromEdges(processedData, 15),
                             canvasData.width, canvasData.height,
                             run.settings.conversionMode)
            IN  /\ canvasData' = processedData
                /\ detectedFeatures' = feats
                /\ cadOutput'.text =
                     generateCADOutput(InThousandths(feats), run.settings.outputFormat,
                                       run.settings.scale, run.referencePoints,
                                       canvasData.width, canvasData.height,
                                       SeventhArgument(run.settings.conversionMode))]_vars

\* A run started with the defaults has finished after the output format was
\* set to JSON, and left a DXF text with the features it found.
C19_Witness ==
    /\ lastCall = <<"processImage", "resumed">>
    /\ run.settings = DefaultSettings
    /\ settings.outputFormat = "json"
    /\ detectedFeatures # <<>>
    /\ cadOutput.done
    /\ cadOutput.text = generateDXF(InThousandths(detectedFeatures), DefaultSettings.scale)

(***************************************************************************)
(* The two dispatching functions called with any string: the types of      *)
(* method and format are unions of literals that are gone at run time.     *)
(***************************************************************************)
AnyEdgeMethods == EdgeMethods \cup {"prewitt", ""}

AnyOutputFormats == OutputFormats \cup {"pdf", ""}

DispatchInit ==
    /\ UploadIdle /\ TraceIdle /\ ClassIdle
    /\ edgeImage \in EdgeImages
    /\ threshold = 100
    /\ operatorOut = [op |-> "none", image |-> NoImage]
    /\ edgeOut = [m \in EdgeMethods |-> NoImage]
    /\ cadFeatures = <<CadFeature("hull_profile", <<Pt(100000, 50000), Pt(7500, 20000)>>)>>
    /\ outputFormat \in AnyOutputFormats
    /\ scale = 2000
    /\ referencePoints = <<>>
    /\ cadOutput = [done |-> FALSE, text |-> <<>>]
    /\ settings \in {[DefaultSettings EXCEPT !.edgeMethod = m] : m \in AnyEdgeMethods}
    /\ isScaleMode = FALSE /\ scalePoints = <<>> /\ knownDistance = 100000
    /\ pixelsPerMM = One /\ image = "null" /\ canvasData = NoImage
    /\ isProcessing = FALSE /\ detectedFeatures = <<>> /\ isImageFullscreen = FALSE
    /\ run = NoRun /\ calibrationLog = NoCalibration /\ lastCall = <<"none">>

\* applyEdgeDetection(edgeImage, settings.edgeMethod, threshold)
CallApplyEdgeDetectionAny ==
    /\ operatorOut.op = "none"
    /\ operatorOut' = [op |-> "applyEdgeDetection",
                       image |-> applyEdgeDetection(edgeImage, settings.edgeMethod, threshold)]
    /\ UNCHANGED <<edgeImage, threshold, edgeOut>>
    /\ UNCHANGED <<uploadVars, traceVars, classVars, cadVars, appVars>>

DispatchNext == CallApplyEdgeDetectionAny \/ CallGenerateCADOutput

SpecDispatch == DispatchInit /\ [][DispatchNext]_vars

\* C20: a method or a format that is none of the recognized ones gets no
\* fallback result: applyEdgeDetection does not hand back the picture it was
\* given, and generateCADOutput does not hand back the empty text.
C20_NoSilentFallback ==
    /\ (operatorOut.op = "applyEdgeDetection" /\ settings.edgeMethod \notin EdgeMethods) =>
          operatorOut.image # edgeImage
    /\ (cadOutput.done /\ outputFormat \notin OutputFormats) =>
          cadOutput.text # <<>>

(***************************************************************************)
(* More claims about the edge operators.                                   *)
(***************************************************************************)

\* C21: every pixel of the buffer an edge operator returns, the border
\* included, has alpha 255 and the same value in R, G and B.
C21_AllPixelsOpaque ==
    operatorOut.op \in {"sobel", "laplacian"} =>
        \A p \in AllPixels(operatorOut.image) :
            /\ Rgba(operatorOut.image, p)[4] = 255
            /\ Rgba(operatorOut.image, p)[1] = Rgba(operatorOut.image, p)[2]
            /\ Rgba(operatorOut.image, p)[2] = Rgba(operatorOut.image, p)[3]

\* C25: the buffer an edge operator returns has the width and height it was
\* given, R = G = B = 0 on the 1-pixel border, and R = G = B = 0 or 255
\* everywhere.
C25_BorderBlackBinaryMask ==
    operatorOut.op \in {"sobel", "laplacian"} =>
        /\ operatorOut.image.width = edgeImage.width
        /\ operatorOut.image.height = edgeImage.height
        /\ DOMAIN operatorOut.image.data = DOMAIN edgeImage.data
        /\ \A p \in AllPixels(operatorOut.image) :
              LET px == Rgba(operatorOut.image, p)
              IN  /\ px[1] \in {0, 255} /\ px[2] = px[1] /\ px[3] = px[1]
                  /\ p \notin InteriorPixels(operatorOut.image) => px[1] = 0

\* The Laplacian operator found an edge at an interior pixel, and the border
\* around it is black.
C25_Witness ==
    /\ operatorOut.op = "laplacian"
    /\ \E p \in InteriorPixels(operatorOut.image) :
          Rgba(operatorOut.image, p) = <<255, 255, 255, 255>>
    /\ \A p \in AllPixels(operatorOut.image) \ InteriorPixels(operatorOut.image) :
          Rgba(operatorOut.image, p)[1] = 0

(***************************************************************************)
(* The edge operators on checkerboards: grey pictures of square tiles of   *)
(* 0 and 255, with every threshold of the usable range 50..200.            *)
(***************************************************************************)
MaxCheckerW == 5
MaxCheckerH == 4
MaxTile == 2

\* The checkerboard of w x h pixels with tiles of tile x tile pixels, the
\* tile at the origin of value first.
Checkerboard(w, h, tile, first) ==
    MkImage(w, h, [i \in 0 .. (w * h - 1) |->
                      IF (((i % w) \div tile) + ((i \div w) \div tile)) % 2 = 0
                      THEN first ELSE 255 - first])

UsableThresholds == 50 .. 200

CheckerInit ==
    /\ UploadIdle /\ TraceIdle /\ ClassIdle /\ CadIdle /\ AppIdle
    /\ edgeImage \in { Checkerboard(w, h, tile, first) :
                          w \in 3 .. MaxCheckerW, h \in 3 .. MaxCheckerH,
                          tile \in 1 .. MaxTile, first \in {0, 255} }
    /\ threshold \in UsableThresholds
    /\ operatorOut = [op |-> "none", image |-> NoImage]
    /\ edgeOut = [m \in EdgeMethods |-> NoImage]

CheckerNext == CallSobel \/ CallLaplacian

SpecChecker == CheckerInit /\ [][CheckerNext]_vars

\* The interior pixels of img with a pixel of the other value above, below,
\* left or right of them: those on a boundary between unlike tiles.
OnTileBoundary(img) ==
    { p \in InteriorPixels(img) :
        \E q \in { Pt(p.x - 1, p.y), Pt(p.x + 1, p.y), Pt(p.x, p.y - 1), Pt(p.x, p.y + 1) } :
            PixelAt(img, q.x, q.y) # PixelAt(img, p.x, p.y) }

\* The tile sizes of which img is a checkerboard.
TileSizes(img) ==
    { tile \in 1 .. MaxTile :
        img = Checkerboard(img.width, img.height, tile, PixelAt(img, 0, 0)) }

\* C22 as stated: in the output of either operator on a checkerboard, every
\* interior pixel on a boundary between unlike tiles is 255.
C22_CheckerboardEdges ==
    operatorOut.op \in {"sobel", "laplacian"} =>
        \A p \in OnTileBoundary(edgeImage) :
            Rgba(operatorOut.image, p) = <<255, 255, 255, 255>>

\* C22 amended: the same for the Laplacian operator with tiles of any size,
\* and for the Sobel operator with tiles of 2 pixels or more; with tiles of
\* 1 pixel both Sobel gradients are 0 at every interior pixel, which the
\* operator leaves black.
C22_CheckerboardEdgesFromTwo ==
    /\ (operatorOut.op = "laplacian"
          \/ (operatorOut.op = "sobel" /\ \E tile \in TileSizes(edgeImage) : tile >= 2)) =>
          \A p \in OnTileBoundary(edgeImage) :
              Rgba(operatorOut.image, p) = <<255, 255, 255, 255>>
    /\ (operatorOut.op = "sobel" /\ 1 \in TileSizes(edgeImage)) =>
          \A p \in InteriorPixels(edgeImage) :
              Rgba(operatorOut.image, p) = <<0, 0, 0, 255>>

\* Sobel at the highest usable threshold on tiles of 2 pixels, with a pixel
\* beside one boundary only and a pixel in the corner of two.
C22_Witness ==
    /\ operatorOut.op = "sobel"
    /\ threshold = 200
    /\ 2 \in TileSizes(edgeImage)
    /\ edgeImage.width = 5
    /\ \A p \in OnTileBoundary(edgeImage) :
          Rgba(operatorOut.image, p) = <<255, 255, 255, 255>>
    /\ Cardinality(OnTileBoundary(edgeImage)) >= 2

(***************************************************************************)
(* The grayscale step of applyEdgeDetection on its own, on pictures of one *)
(* row whose colours include sums that lie halfway between two integers.   *)
(***************************************************************************)
GrayW == 2

GrayscaleInit ==
    /\ UploadIdle /\ TraceIdle /\ ClassIdle /\ CadIdle /\ AppIdle
    /\ edgeImage \in
         { ColourImage(GrayW, 1, f) :
             f \in [0 .. (GrayW - 1) ->
                     { <<12, 0, 8, 255>>, <<0, 12, 4, 255>>, <<8, 20, 12, 255>>,
                       <<34, 84, 9, 255>>, <<0, 255, 255, 0>>, <<255, 0, 0, 255>>,
                       <<40, 40, 40, 128>>, <<255, 255, 255, 255>> }] }
    /\ threshold = 0
    /\ operatorOut = [op |-> "none", image |-> NoImage]
    /\ edgeOut = [m \in EdgeMethods |-> NoImage]

\* const data = new Uint8ClampedArray(imageData.data), then the grayscale loop
CallGrayscale ==
    /\ operatorOut.op = "none"
    /\ operatorOut' = [op |-> "grayscale",
                       image |-> [edgeImage EXCEPT !.data = Grayscale(edgeImage.data)]]
    /\ UNCHANGED <<edgeImage, threshold, edgeOut>>
    /\ UNCHANGED <<uploadVars, traceVars, classVars, cadVars, appVars>>

GrayscaleNext == CallGrayscale

SpecGrayscale == GrayscaleInit /\ [][GrayscaleNext]_vars

\* 0.299 R + 0.587 G + 0.114 B of pixel p of img, in thousandths.
ExactSum(img, p) ==
    299 * Rgba(img, p)[1] + 587 * Rgba(img, p)[2] + 114 * Rgba(img, p)[3]

\* C23 as stated, round being Math.round: the step sets R = G = B to the
\* sum rounded to the nearest integer, halves upwards, and the step applied
\* to its result changes nothing.
C23_GrayscaleRounded ==
    operatorOut.op = "grayscale" =>
        /\ \A p \in AllPixels(edgeImage) :
              LET v == (ExactSum(edgeImage, p) + 500) \div 1000
              IN  /\ Rgba(operatorOut.image, p)[1] = v
                  /\ Rgba(operatorOut.image, p)[2] = v
                  /\ Rgba(operatorOut.image, p)[3] = v
        /\ Grayscale(operatorOut.image.data) = operatorOut.image.data

\* C23 amended: the step sets R = G = B to an integer nearest to the sum,
\* which is the rounded sum wherever the sum is not halfway between two
\* integers, leaves alpha as it was, and the step applied to its result
\* changes nothing.
C23_GrayscaleNearest ==
    operatorOut.op = "grayscale" =>
        /\ \A p \in AllPixels(edgeImage) :
              LET v == Rgba(operatorOut.image, p)[1]
              IN  /\ v \in 0 .. 255
                  /\ 1000 * v - ExactSum(edgeImage, p) \in -500 .. 500
                  /\ Rgba(operatorOut.image, p)[2] = v
                  /\ Rgba(operatorOut.image, p)[3] = v
                  /\ Rgba(operatorOut.image, p)[4] = Rgba(edgeImage, p)[4]
        /\ Grayscale(operatorOut.image.data) = operatorOut.image.data

\* The step has run on a picture of the colours 12, 0, 8 (sum 4.5, stored as
\* 4) and 8, 20, 12 (sum 15.5, stored as 15).
C23_Witness ==
    /\ operatorOut.op = "grayscale"
    /\ Rgba(edgeImage, Pt(0, 0)) = <<12, 0, 8, 255>>
    /\ Rgba(operatorOut.image, Pt(0, 0)) = <<4, 4, 4, 255>>
    /\ Rgba(edgeImage, Pt(1, 0)) = <<8, 20, 12, 255>>
    /\ Rgba(operatorOut.image, Pt(1, 0)) = <<15, 15, 15, 255>>

(***************************************************************************)
(* More claims about the tracer.                                           *)
(***************************************************************************)

\* The points of the traces pushed so far and of the one being collected.
TracedSoFar == Concat([i \in 1 .. Len(features) |-> features[i].points]) \o points

\* C24: in one pass each coordinate is marked visited at most once (a step
\* marks at most one coordinate, one that was not marked, and no mark is
\* ever removed), a point joins a trace in the step that marks it, and no
\* coordinate occurs twice in the points of all traces together.
C24_VisitedOnce ==
    /\ [](/\ \A i \in 1 .. Len(TracedSoFar) : \A j \in 1 .. Len(TracedSoFar) :
                TracedSoFar[i] = TracedSoFar[j] => i = j
          /\ \A i \in 1 .. Len(TracedSoFar) : TracedSoFar[i] \in visited)
    /\ [][/\ visited \subseteq visited'
          /\ Cardinality(visited' \ visited) <= 1
          /\ (points' # points /\ points' # <<>>) =>
                \E p \in visited' \ visited : points' = Append(points, p)]_vars

\* traceLine is about to pop a pixel that was pushed twice and is already
\* marked, with three points collected.
C24_Witness ==
    /\ pc = "trace"
    /\ stack # <<>>
    /\ stack[Len(stack)] \in visited
    /\ Len(points) >= 3

\* extractLinesFromEdges runs on: a loop iteration that can be taken is taken.
SpecTraceLive == TraceInit /\ [][TraceNext]_vars /\ WF_vars(TraceNext)

\* C26: traceLine terminates: once it is called its stack becomes empty;
\* every pop is skipped for a pixel already visited or marks a pixel that
\* was not, and the pixels pushed are in bounds, on and not visited.
C26_TraceLineTerminates ==
    /\ (pc = "trace") ~> (pc = "trace" /\ stack = <<>>)
    /\ [][(pc = "trace" /\ stack # <<>>) =>
            LET p == stack[Len(stack)]
                rest == SubSeq(stack, 1, Len(stack) - 1)
            IN  /\ \/ p \in visited /\ visited' = visited /\ stack' = rest
                   \/ p \notin visited /\ visited' = visited \cup {p}
                /\ Len(stack') >= Len(rest)
                /\ SubSeq(stack', 1, Len(rest)) = rest
                /\ \A k \in (Len(rest) + 1) .. Len(stack') :
                      /\ stack'[k].x \in 0 .. (imageData.width - 1)
                      /\ stack'[k].y \in 0 .. (imageData.height - 1)
                      /\ PixelAt(imageData, stack'[k].x, stack'[k].y) > 128
                      /\ stack'[k] \notin visited']_vars

\* traceLine has emptied its stack after collecting every pixel of a picture
\* of six on pixels.
C26_Witness ==
    /\ pc = "trace"
    /\ stack = <<>>
    /\ Len(points) = 6
    /\ Cardinality(visited) = 6

\* The place of pixel p in raster order: rows from the top, each from the left.
RasterIndex(img, p) == p.y * img.width + p.x

\* C27: the first point of every trace returned is the first pixel in raster
\* order of its connected component, and the traces are returned in
\* increasing raster order of their first points.
C27_RasterFirst ==
    pc = "done" =>
        /\ \A i \in 1 .. Len(features) :
              /\ Len(features[i].points) >= 1
              /\ \A q \in ComponentOf(imageData, features[i].points[1]) :
                    RasterIndex(imageData, features[i].points[1]) <= RasterIndex(imageData, q)
        /\ \A i \in 1 .. Len(features) : \A j \in 1 .. Len(features) :
              i < j => RasterIndex(imageData, features[i].points[1])
                         < RasterIndex(imageData, features[j].points[1])

\* Two traces returned, the first of them of more than one point and with a
\* pixel of its component in the row above its last point.
C27_Witness ==
    /\ pc = "done"
    /\ Len(features) >= 2
    /\ LET pts == features[1].points
       IN  /\ Len(pts) >= 3
           /\ pts[Len(pts)].y > pts[1].y

\* C30: once clearAll has run, detectedFeatures stays empty and cadOutput
\* stays at the cleared placeholder while no processImage call is started
\* (and no setting is changed): a call suspended when clearAll ran does not
\* write them.
C30_ClearAllStays ==
    [][(/\ image = "null"
        /\ cadOutput = [done |-> FALSE, text |-> ClearedMessage]
        /\ detectedFeatures = <<>>
        /\ run'.count = run.count
        /\ settings' = settings) =>
            /\ cadOutput' = cadOutput
            /\ detectedFeatures' = <<>>]_vars

(***************************************************************************)
(* exportToDXF and its DXFBuilder.  The builder is [content, entityHandle];*)
(* the text returned is content.join("\n"), held as the list of its lines. *)
(* Coordinates are thousandths; a scaled value is the exact fraction       *)
(* [n, d] of thousandths.                                                  *)
(***************************************************************************)
HexDigits == <<"0", "1", "2", "3", "4", "5", "6", "7", "8", "9", "A", "B", "C", "D", "E", "F">>

\* n.toString(16).toUpperCase()
RECURSIVE Hex(_)
Hex(n) == IF n < 16 THEN HexDigits[n + 1] ELSE Hex(n \div 16) \o HexDigits[(n % 16) + 1]

\* (v).toFixed(6) for v = n / d thousandths, n >= 0, d > 0
toFixed6(v) ==
    LET th == v.n \div v.d
        r == v.n % v.d
        low == (2000 * r + v.d) \div (2 * v.d)
        whole == IF low = 1000 THEN th + 1 ELSE th
    IN  ToString(whole \div 1000) \o "." \o Pad3(whole % 1000) \o Pad3(low % 1000)

Whole(th) == [n |-> th, d |-> 1]

\* new DXFBuilder(): addHeader
NewDXFBuilder ==
    [content |-> <<"0", "SECTION", "2", "HEADER", "9", "$ACADVER", "1", "AC1015",
                   "9", "$HANDSEED", "5", "FFFF", "0", "ENDSEC">>,
     entityHandle |-> 100]

\* content.includes(s)
Includes(content, s) == \E i \in 1 .. Len(content) : content[i] = s

\* content.push(...lines), with getNextHandle() called once in between
Pushed(dxf, lines) ==
    [content |-> dxf.content \o lines, entityHandle |-> dxf.entityHandle + 1]

addLayer(dxf, layerName, color) ==
    LET opened == IF ~Includes(dxf.content, "SECTION") \/ ~Includes(dxf.content, "TABLES")
                  THEN dxf.content \o <<"0", "SECTION", "2", "TABLES">>
                  ELSE dxf.content
    IN  Pushed([dxf EXCEPT !.content = opened],
               <<"0", "LAYER", "5", Hex(dxf.entityHandle), "2", layerName, "70", "0",
                 "62", ToString(color), "6", "CONTINUOUS">>)

addLine(dxf, start, end, layer) ==
    Pushed(dxf, <<"0", "LINE", "5", Hex(dxf.entityHandle), "8", layer,
                  "10", toFixed6(start.x), "20", toFixed6(start.y), "30", "0.0",
                  "11", toFixed6(end.x), "21", toFixed6(end.y), "31", "0.0">>)

addPolyline(dxf, pts, layer, closed) ==
    Pushed(dxf, <<"0", "LWPOLYLINE", "5", Hex(dxf.entityHandle), "8", layer,
                  "90", ToString(Len(pts)), "70", IF closed THEN "1" ELSE "0">>
                \o Concat([i \in 1 .. Len(pts) |->
                             <<"10", toFixed6(pts[i].x), "20", toFixed6(pts[i].y)>>]))

addCircle(dxf, center, radius, layer) ==
    Pushed(dxf, <<"0", "CIRCLE", "5", Hex(dxf.entityHandle), "8", layer,
                  "10", toFixed6(center.x), "20", toFixed6(center.y), "30", "0.0",
                  "40", toFixed6(radius)>>)

addText(dxf, text, position, height, layer) ==
    Pushed(dxf, <<"0", "TEXT", "5", Hex(dxf.entityHandle), "8", layer,
                  "10", toFixed6(position.x), "20", toFixed6(position.y), "30", "0.0",
                  "40", toFixed6(height), "1", text>>)

build(dxf) ==
    dxf.content \o <<"0", "SECTION", "2", "ENTITIES">> \o <<"0", "ENDSEC", "0", "EOF">>

\* unitMultipliers, in tenths
UnitMultipliers == [mm |-> 10, inches |-> 254, feet |-> 3048, meters |-> 10000]

\* (targetScale / baseScale) * (unitMultipliers[units] || 1), baseScale > 0
calculateScaleFactor(baseScale, targetScale, units) ==
    Frac(targetScale * (IF units \in DOMAIN UnitMultipliers THEN UnitMultipliers[units] ELSE 10),
         baseScale * 10)

\* Array.from(new Set(features.map(f => f.type))): the types in order of first occurrence
FeatureTypesOf(feats) ==
    LET firsts == {i \in 1 .. Len(feats) : \A j \in 1 .. i - 1 : feats[j].type # feats[i].type}
        nth[k \in 1 .. Cardinality(firsts)] ==
            CHOOSE i \in firsts : Cardinality({j \in firsts : j < i}) = k - 1
    IN  [k \in 1 .. Cardinality(firsts) |-> feats[nth[k]].type]

LayerColors == <<1, 2, 3, 4, 5, 6>>

RECURSIVE AddLayers(_, _, _)
AddLayers(dxf, types, k) ==
    IF k > Len(types) THEN dxf
    ELSE AddLayers(addLayer(dxf, ToUpperCase(types[k]), LayerColors[((k - 1) % Len(LayerColors)) + 1]),
                   types, k + 1)

RECURSIVE AddLines(_, _, _, _)
AddLines(dxf, pts, i, layer) ==
    IF i >= Len(pts) THEN dxf
    ELSE AddLines(addLine(dxf, pts[i], pts[i + 1], layer), pts, i + 1, layer)

ScaledPoints(feature, f) ==
    [i \in 1 .. Len(feature.points) |->
        [x |-> [n |-> feature.points[i].x * f.num, d |-> f.den],
         y |-> [n |-> feature.points[i].y * f.num, d |-> f.den]]]

AddFeature(dxf, feature, f, byType) ==
    LET scaledPoints == ScaledPoints(feature, f)
        layerName == IF byType THEN ToUpperCase(feature.type) ELSE "0"
    IN  IF feature.type = "hull_profile" \/ feature.type = "deck_edge"
        THEN addPolyline(dxf, scaledPoints, layerName, TRUE)
        ELSE IF feature.type = "mast"
        THEN IF Len(scaledPoints) >= 2
             THEN addCircle(dxf, scaledPoints[1],
                            [n |-> Abs(scaledPoints[2].x.n - scaledPoints[1].x.n), d |-> 2 * f.den],
                            layerName)
             ELSE dxf
        ELSE AddLines(dxf, scaledPoints, 1, layerName)

RECURSIVE AddFeatures(_, _, _, _, _)
AddFeatures(dxf, feats, k, f, byType) ==
    IF k > Len(feats) THEN dxf
    ELSE AddFeatures(AddFeature(dxf, feats[k], f, byType), feats, k + 1, f, byType)

\* metadata.timestamp of the CADOutput exported
ExportTimestamp == "2024-01-01T00:00:00.000Z"

AddMetadata(dxf, baseScale, units) ==
    LET a == addText(dxf, "Generated: " \o ExportTimestamp,
                     [x |-> Whole(10000), y |-> Whole(10000)], Whole(2500), "METADATA")
        b == addText(a, "Scale: " \o NumStr(baseScale),
                     [x |-> Whole(10000), y |-> Whole(15000)], Whole(2500), "METADATA")
    IN  addText(b, "Units: " \o units,
                [x |-> Whole(10000), y |-> Whole(20000)], Whole(2500), "METADATA")

\* exportToDXF(cadOutput, options) for cadOutput = {metadata: {scale: baseScale, ...}, features: feats}
exportToDXF(feats, baseScale, options) ==
    LET scaleFactor == calculateScaleFactor(baseScale, options.scale, options.units)
        layered == IF options.layersByFeatureType
                   THEN AddLayers(NewDXFBuilder, FeatureTypesOf(feats), 1)
                   ELSE NewDXFBuilder
        drawn == AddFeatures(layered, feats, 1, scaleFactor, options.layersByFeatureType)
        noted == IF options.includeMetadata
                 THEN AddMetadata(drawn, baseScale, options.units)
                 ELSE drawn
    IN  build(noted)

(***************************************************************************)
(* exportToDXF called on a CADOutput of up to MaxCadFeatures features with *)
(* metadata.scale 1 or 2, under every combination of the options of the    *)
(* export panel (scale 1 or 2).  lastCall records the options.             *)
(***************************************************************************)
ExportScales == {1000, 2000}

DXFExportOptions ==
    [scale : ExportScales, units : {"mm", "inches", "feet", "meters"},
     layersByFeatureType : BOOLEAN, includeMetadata : BOOLEAN]

ExportInit ==
    /\ UploadIdle /\ TraceIdle /\ ClassIdle /\ EdgeIdle /\ AppIdle
    /\ cadFeatures \in CadFeatureLists
    /\ outputFormat = "dxf"
    /\ scale \in ExportScales
    /\ referencePoints = <<>>
    /\ cadOutput = [done |-> FALSE, text |-> <<>>]

CallExportToDXF ==
    /\ ~cadOutput.done
    /\ \E options \in DXFExportOptions :
          /\ cadOutput' = [done |-> TRUE, text |-> exportToDXF(cadFeatures, scale, options)]
          /\ lastCall' = <<"exportToDXF", options>>
    /\ UNCHANGED <<cadFeatures, outputFormat, scale, referencePoints>>
    /\ UNCHANGED <<uploadVars, traceVars, classVars, edgeVars>>
    /\ UNCHANGED <<settings, isScaleMode, scalePoints, knownDistance, pixelsPerMM, image,
                   canvasData, isProcessing, detectedFeatures, isImageFullscreen, run,
                   calibrationLog>>

ExportNext == CallExportToDXF

SpecExport == ExportInit /\ [][ExportNext]_vars

\* The places (odd line numbers) where the lines of a text start with the given lines.
StartsAt(text, i, lines) ==
    /\ i + Len(lines) - 1 <= Len(text)
    /\ \A k \in 1 .. Len(lines) : text[i + k - 1] = lines[k]

CodePlaces(text) == {i \in 1 .. Len(text) : i % 2 = 1}

EntityNames == {"LWPOLYLINE", "LINE", "CIRCLE", "TEXT"}

\* C28: in the text returned by exportToDXF every LWPOLYLINE, LINE, CIRCLE
\* and TEXT record comes after the "0 SECTION 2 ENTITIES" header and before
\* the final "0 ENDSEC 0 EOF", and between two SECTION starts there is an
\* ENDSEC.
C28_SectionsWellOrdered ==
    (cadOutput.done /\ lastCall[1] = "exportToDXF") =>
        LET text == cadOutput.text
            places == CodePlaces(text)
            sections == {i \in places : StartsAt(text, i, <<"0", "SECTION">>)}
        IN  /\ \A i \in places :
                 (text[i] = "0" /\ text[i + 1] \in EntityNames) =>
                     /\ \E h \in places : h < i /\ StartsAt(text, h, <<"0", "SECTION", "2", "ENTITIES">>)
                     /\ i < Len(text) - 3
                     /\ StartsAt(text, Len(text) - 3, <<"0", "ENDSEC", "0", "EOF">>)
            /\ \A i, j \in sections :
                 i < j => \E k \in places : i < k /\ k < j /\ StartsAt(text, k, <<"0", "ENDSEC">>)

(***************************************************************************)
(* useImageUpload: handleFileUpload calls that overlap.  A file is         *)
(* [stem, ext, type, size], its name being stem.ext; a call stands at      *)
(* "idle" (not made), "converting" (awaiting heic2any), "reading"          *)
(* (awaiting reader.onload), "decoding" (awaiting img.onload) or at one of *)
(* its ends: "returned", "rejected" (an alert before the upload began),    *)
(* "failed" (the catch block) and "delivered" (onImageLoad was called).    *)
(* A promise's continuation runs in the microtask that follows the event   *)
(* settling it, so each event and the code it resumes make one step.       *)
(***************************************************************************)
MaxFileSize == 10 * 1024 * 1024

\* The files offered, besides no file: two pictures, two HEIC photos (one
\* named in capitals, one known by its type only), a text file and a
\* picture over the size limit.
UploadFiles ==
    { [stem |-> "hull", ext |-> "png", type |-> "image/png", size |-> 2048],
      [stem |-> "deck", ext |-> "jpg", type |-> "image/jpeg", size |-> MaxFileSize],
      [stem |-> "IMG_1", ext |-> "HEIC", type |-> "", size |-> 4096],
      [stem |-> "IMG_2", ext |-> "bin", type |-> "image/heif", size |-> 4096],
      [stem |-> "notes", ext |-> "txt", type |-> "text/plain", size |-> 10],
      [stem |-> "huge", ext |-> "png", type |-> "image/png", size |-> MaxFileSize + 1] }

\* file.name.toLowerCase() of the extensions offered
ExtToLowerCase(ext) == IF ext = "HEIC" THEN "heic" ELSE ext

\* file.type.startsWith("image/")
IsStandardImage(file) == file.type \in {"image/png", "image/jpeg", "image/heic", "image/heif"}

IsHEIC(file) ==
    \/ ExtToLowerCase(file.ext) = "heic"
    \/ ExtToLowerCase(file.ext) = "heif"
    \/ file.type = "image/heic"
    \/ file.type = "image/heif"

\* new File([convertedBlob], file.name.replace(/\.(heic|heif)$/i, ".jpg"), {type: "image/jpeg"});
\* the size of the converted blob is not used afterwards
ProcessedFile(file) ==
    [file EXCEPT !.ext = IF ExtToLowerCase(file.ext) \in {"heic", "heif"} THEN "jpg" ELSE file.ext,
                 !.type = "image/jpeg"]

InFlightPcs == {"converting", "reading", "decoding"}

InFlight == {k \in 1 .. MaxUploads : uploads[k].pc \in InFlightPcs}

\* The call made next: calls are numbered in the order they are made.
NextUpload == CHOOSE k \in 1 .. MaxUploads : uploads[k].pc = "idle" /\ \A j \in 1 .. k - 1 : uploads[j].pc # "idle"

\* The decoded picture of a file: its name and natural size.
DecodedImage(file) ==
    [name |-> file.stem \o "." \o file.ext,
     width |-> IF file.ext = "png" THEN 1000 ELSE 250,
     height |-> IF file.ext = "png" THEN 800 ELSE 100]

\* drawImageToCanvas(img): the canvas takes the picture's size scaled by
\* Math.min(500 / width, 400 / height), and the picture is drawn over all of it.
drawImageToCanvas(img) ==
    IF 500 * img.height <= 400 * img.width
    THEN [width |-> 500, height |-> (img.height * 500) \div img.width, drawn |-> img.name]
    ELSE [width |-> (img.width * 400) \div img.height, height |-> 400, drawn |-> img.name]

UploadFrame ==
    /\ UNCHANGED <<traceVars, classVars, edgeVars, cadVars>>
    /\ UNCHANGED <<settings, isScaleMode, scalePoints, knownDistance, pixelsPerMM, isProcessing,
                   detectedFeatures, isImageFullscreen, run, calibrationLog>>

\* finally { setIsConverting(false); setIsUploading(false) }
Finally ==
    /\ isConverting' = FALSE
    /\ isUploading' = FALSE

\* handleFileUpload(file) up to its first await (or its return)
HandleFileUpload(file) ==
    /\ \E k \in 1 .. MaxUploads : uploads[k].pc = "idle"
    /\ LET k == NextUpload
           started(at) == [uploads EXCEPT ![k] = [file |-> file, pc |-> at, during |-> InFlight]]
       IN  IF file = NoFile
           THEN /\ uploads' = started("returned")
                /\ UNCHANGED <<isUploading, isConverting>>
           ELSE IF (~IsStandardImage(file) /\ ~IsHEIC(file)) \/ file.size > MaxFileSize
           THEN /\ uploads' = started("rejected")
                /\ UNCHANGED <<isUploading, isConverting>>
           ELSE IF IsHEIC(file)
           THEN /\ uploads' = started("converting")
                /\ isUploading' = TRUE
                /\ isConverting' = TRUE
           ELSE /\ uploads' = started("reading")
                /\ isUploading' = TRUE
                /\ UNCHANGED isConverting
    /\ lastCall' = <<"handleFileUpload">>
    /\ UNCHANGED <<image, canvasData>>
    /\ UploadFrame

\* heic2any settles: the call goes on to readAsDataURL, or to the catch block
Heic2AnySettles(k, ok) ==
    /\ uploads[k].pc = "converting"
    /\ IF ok
       THEN /\ uploads' = [uploads EXCEPT ![k].file = ProcessedFile(@), ![k].pc = "reading"]
            /\ isConverting' = FALSE
            /\ UNCHANGED isUploading
       ELSE /\ uploads' = [uploads EXCEPT ![k].pc = "failed"]
            /\ Finally
    /\ lastCall' = <<"heic2any", k>>
    /\ UNCHANGED <<image, canvasData>>
    /\ UploadFrame

\* reader.onload: the picture starts to decode, or the promise is rejected
ReaderOnLoad(k, hasResult) ==
    /\ uploads[k].pc = "reading"
    /\ IF hasResult
       THEN /\ uploads' = [uploads EXCEPT ![k].pc = "decoding"]
            /\ UNCHANGED <<isUploading, isConverting>>
       ELSE /\ uploads' = [uploads EXCEPT ![k].pc = "failed"]
            /\ Finally
    /\ lastCall' = <<"reader.onload", k>>
    /\ UNCHANGED <<image, canvasData>>
    /\ UploadFrame

\* reader.onerror
ReaderOnError(k) ==
    /\ uploads[k].pc = "reading"
    /\ uploads' = [uploads EXCEPT ![k].pc = "failed"]
    /\ Finally
    /\ lastCall' = <<"reader.onerror", k>>
    /\ UNCHANGED <<image, canvasData>>
    /\ UploadFrame

\* img.onload: onImageLoad(img), that is setImage(img) and drawImageToCanvas(img)
ImgOnLoad(k) ==
    /\ uploads[k].pc = "decoding"
    /\ uploads' = [uploads EXCEPT ![k].pc = "delivered"]
    /\ image' = DecodedImage(uploads[k].file).name
    /\ canvasData' = drawImageToCanvas(DecodedImage(uploads[k].file))
    /\ Finally
    /\ lastCall' = <<"onImageLoad", k>>
    /\ UploadFrame

\* img.onerror
ImgOnError(k) ==
    /\ uploads[k].pc = "decoding"
    /\ uploads' = [uploads EXCEPT ![k].pc = "failed"]
    /\ Finally
    /\ lastCall' = <<"img.onerror", k>>
    /\ UNCHANGED <<image, canvasData>>
    /\ UploadFrame

UploadInit ==
    /\ UploadIdle /\ TraceIdle /\ ClassIdle /\ EdgeIdle /\ CadIdle /\ AppIdle

UploadNext ==
    \/ \E file \in UploadFiles \cup {NoFile} : HandleFileUpload(file)
    \/ \E k \in 1 .. MaxUploads : \E ok \in BOOLEAN : Heic2AnySettles(k, ok)
    \/ \E k \in 1 .. MaxUploads : \E hasResult \in BOOLEAN : ReaderOnLoad(k, hasResult)
    \/ \E k \in 1 .. MaxUploads : ReaderOnError(k)
    \/ \E k \in 1 .. MaxUploads : ImgOnLoad(k)
    \/ \E k \in 1 .. MaxUploads : ImgOnError(k)

SpecUpload == UploadInit /\ [][UploadNext]_vars

\* isUploading as the hook returns it
IsUploadingReturned == isUploading \/ isConverting

\* C29: when the second call started while the first was in flight, the
\* hook's isUploading is true as long as a call is in flight, and once both
\* have delivered their picture the picture shown is the second call's.
C29_LastUploadWins ==
    (1 \in uploads[2].during) =>
        /\ InFlight # {} => IsUploadingReturned
        /\ (uploads[1].pc = "delivered" /\ uploads[2].pc = "delivered") =>
              /\ image = DecodedImage(uploads[2].file).name
              /\ canvasData = drawImageToCanvas(DecodedImage(uploads[2].file))

====
